---- MODULE Spec2Model ----
(***************************************************************************)
(* Model of the chat-rag prompt pipeline: the message-list helpers of      *)
(* package utils, the conversation state built from them, the stages      *)
(* ToolDescriptionExtractor and LoopDetector, RagCompressProcessor.Arrange *)
(* with its chain of stages, and concurrent invocations of Arrange.        *)
(*                                                                         *)
(* Indices are 1-based (Go index i is i+1 here) and 0 stands for Go's -1   *)
(* ("not found").  A text is a sequence of tokens; every marker string of  *)
(* the source is one token, so strings.Index is Index on sequences.        *)
(***************************************************************************)
EXTENDS Integers, Sequences, FiniteSets, TLC

VARIABLES
    messages,       \* the caller's message list (input of every operation)
    num,            \* the "recent user messages" count K
    op,             \* the operation that ran last ("init" before any)
    ret,            \* what that operation returned
    err,            \* the error it returned (Nil for none)
    promptMsg,      \* the PromptMsg conversation state (NoPromptMsg if none)
    pc,             \* position of Arrange in its stage chain
    cfg,            \* config.NeedCompressUserPrompt and identity.Language
    semanticSearch, \* fields of the SemanticSearch stage instance
    userCompressor, \* fields of the UserCompressor stage instance
    executed,       \* the stages executed so far, in order
    toolDescriptionExtractor,   \* fields of the ToolDescriptionExtractor
    loopDetector,   \* fields of the LoopDetector stage instance
    frames,         \* the Execute calls of Arrange's chain not yet returned
    requests,       \* the concurrent Arrange invocations, by request
    processors,     \* the RagCompressProcessor instances they are called on
    voucherConfig,  \* svcCtx.Config.VoucherActivityConfig
    redis,          \* the Redis hashes of redemption records, by key
    clock,          \* the wall clock read by time.Now
    calls,          \* the executions of VoucherActivityMiddleware, by request
    configWatcher,  \* fields of the ConfigWatcher
    listening,      \* the dataIds the Nacos client listens for
    watcherRet,     \* the last call on the ConfigWatcher and what it returned
    configHandler,  \* fields of a GenericConfigHandler
    heap,           \* the config instances allocated, by address
    onChangeCall,   \* the OnChange call in progress and its locals
    notified,       \* the instances the onChange callback was called with
    observed,       \* the instance GetConfig returned last
    requestVerify,  \* svcCtx.Config.RequestVerify
    ginContext,     \* the gin context of a request of IdentityMiddleware
    nowUs           \* time.Now of that request, in microseconds

vars == <<messages, num, op, ret, err, promptMsg, pc, cfg,
          semanticSearch, userCompressor, executed,
          toolDescriptionExtractor, loopDetector, frames, requests,
          processors, voucherConfig, redis, clock, calls,
          configWatcher, listening, watcherRet,
          configHandler, heap, onChangeCall, notified, observed,
          requestVerify, ginContext, nowUs>>

\* the variables of the prompt pipeline
ragVars == <<messages, num, op, ret, err, promptMsg, pc, cfg,
             semanticSearch, userCompressor, executed,
             toolDescriptionExtractor, loopDetector, frames, requests,
             processors>>

\* the variables of the voucher activity middleware
voucherVars == <<voucherConfig, redis, clock, calls>>

\* the variables of the ConfigWatcher, of a GenericConfigHandler and of
\* the identity middleware
watcherVars == <<configWatcher, listening, watcherRet>>

handlerVars == <<configHandler, heap, onChangeCall, notified, observed>>

identityVars == <<requestVerify, ginContext, nowUs>>

\* the variables of the HTTP middlewares and of the configuration watcher
apiVars == <<voucherVars, watcherVars, handlerVars, identityVars>>

\* the variables of the stand-alone stages, and of the concurrent requests
stageVars == <<toolDescriptionExtractor, loopDetector>>

concVars == <<requests, processors>>

Nil == "nil"

\* a nil *PromptMsg (a record, so that it compares with a state)
NoPromptMsg == [all |-> <<>>]

-----------------------------------------------------------------------------
(* Bounds of the model *)

MaxMsgs == 3        \* longest message list of the helper specification
MaxNum == 3         \* largest K
MaxText == 4        \* longest system-message text, in tokens
MaxTail == 1        \* most messages after the system message (stage inputs)
MaxRuns == 2        \* most stage executions on one conversation state
MaxOlder == 3       \* most messages before the last one (loop inputs)
NumRequests == 2    \* concurrent invocations of Arrange
NumCalls == 2       \* concurrent executions of VoucherActivityMiddleware
MaxTime == 2        \* latest reading of the clock
MaxQuota == 1       \* largest TotalQuota of an activity
MaxObjects == 3     \* most config instances allocated for one handler
MaxValue == 2       \* largest value of a field in configuration data

-----------------------------------------------------------------------------
(* types.Role* and the message record *)

RoleSystem == "system"
RoleUser == "user"
RoleAssistant == "assistant"
RoleTool == "tool"

Roles == {RoleSystem, RoleUser, RoleAssistant, RoleTool}

Msg(role, content) == [Role |-> role, Content |-> content]

SeqsUpTo(S, n) == UNION {[1..k -> S] : k \in 0..n}

-----------------------------------------------------------------------------
(* Message content: a plain string (a text, the empty string being <<>>),  *)
(* a list of model.Content blocks, or a value of another shape (nil        *)
(* included), which ExtractMsgContent rejects.                             *)

ContTypeText == "text"
EphemeralCacheControl == "ephemeral"

Str(text) == [kind |-> "string", text |-> text, blocks |-> <<>>]

Blocks(blocks) == [kind |-> "blocks", text |-> <<>>, blocks |-> blocks]

Other == [kind |-> "other", text |-> <<>>, blocks |-> <<>>]

Content(text, cache) ==
    [Type |-> ContTypeText, Text |-> text, CacheControl |-> cache]

\* model.Content.ExtractMsgContent: the content as a list of blocks, a plain
\* string flattened into one text block
ExtractMsgContent(msg) ==
    IF msg.Content.kind = "string"
    THEN [contents |-> <<Content(msg.Content.text, Nil)>>, err |-> Nil]
    ELSE IF msg.Content.kind = "blocks"
    THEN [contents |-> msg.Content.blocks, err |-> Nil]
    ELSE [contents |-> <<>>, err |-> "unsupported content"]

-----------------------------------------------------------------------------
(* package utils: helpers over a message list *)

RECURSIVE SysScan(_, _)
SysScan(msgs, i) ==
    IF i > Len(msgs) THEN Msg(RoleSystem, Str(<<>>))
    ELSE IF msgs[i].Role = RoleSystem THEN msgs[i]
    ELSE SysScan(msgs, i + 1)

RECURSIVE SysScanLast(_, _)
SysScanLast(msgs, i) ==
    IF i < 1 THEN Msg(RoleSystem, Str(<<>>))
    ELSE IF msgs[i].Role = RoleSystem THEN msgs[i]
    ELSE SysScanLast(msgs, i - 1)

\* mutant of GetSystemMsg: scans from the end, so the last system message wins
GetSystemMsgLastWins(msgs) == SysScanLast(msgs, Len(msgs))

\* mutant of GetSystemMsg: without a system message, returns the zero Message
GetSystemMsgZeroValue(msgs) ==
    IF \E i \in 1..Len(msgs) : msgs[i].Role = RoleSystem
    THEN SysScan(msgs, 1)
    ELSE Msg("", Other)

\* GetSystemMsg: the first system message, or a synthetic empty one
GetSystemMsg(msgs) == SysScan(msgs, 1)

\* the backward loop shared by GetOldUserMsgsWithNum and
\* GetRecentUserMsgsWithNum: position of the n-th user message from the end
RECURSIVE UserScan(_, _, _, _)
UserScan(msgs, i, userCount, n) ==
    IF i < 1 THEN 0
    ELSE IF msgs[i].Role = RoleUser
         THEN IF userCount + 1 = n THEN i
              ELSE UserScan(msgs, i - 1, userCount + 1, n)
         ELSE UserScan(msgs, i - 1, userCount, n)

\* the forward loop of GetOldUserMsgsWithNum: sysPos, which stays at the
\* first position when the list holds no system message
RECURSIVE SysPosScan(_, _)
SysPosScan(msgs, i) ==
    IF i > Len(msgs) THEN 1
    ELSE IF msgs[i].Role = RoleSystem THEN i
    ELSE SysPosScan(msgs, i + 1)

\* mutant of FindSysPos: keeps the assumption "system message is at position 0"
FindSysPosAssumeFirst(msgs) == 1

FindSysPos(msgs) ==
    IF Len(msgs) = 0 \/ msgs[1].Role # RoleSystem
    THEN SysPosScan(msgs, 1)
    ELSE 1

\* mutant of RecentBounds: starts one message after the n-th user message
RecentBoundsOffByOne(msgs, n) ==
    IF n <= 0 THEN <<1, Len(msgs)>>
    ELSE LET position == UserScan(msgs, Len(msgs), 0, n)
         IN IF position = 0 THEN <<1, 0>>
            ELSE <<position + 1, Len(msgs)>>

\* GetRecentUserMsgsWithNum as the slice bounds <<first, last>> it returns
\* (<<1, 0>> is the empty slice)
RecentBounds(msgs, n) ==
    IF n <= 0 THEN <<1, Len(msgs)>>
    ELSE LET position == UserScan(msgs, Len(msgs), 0, n)
         IN IF position = 0 THEN <<1, 0>>
            ELSE <<position, Len(msgs)>>

GetRecentUserMsgsWithNum(msgs, n) ==
    SubSeq(msgs, RecentBounds(msgs, n)[1], RecentBounds(msgs, n)[2])

\* mutant of OldBounds: without the early return for num >= len(messages)
OldBoundsNoEarlyReturn(msgs, n) ==
    IF n <= 0 THEN <<1, Len(msgs)>>
    ELSE LET sysPos == FindSysPos(msgs)
             userPos == UserScan(msgs, Len(msgs), 0, n)
         IN IF userPos = 0
            THEN IF sysPos >= Len(msgs) THEN <<1, 0>>
                 ELSE <<sysPos + 1, Len(msgs)>>
            ELSE IF sysPos >= userPos THEN <<1, 0>>
                 ELSE <<sysPos + 1, userPos - 1>>

\* GetOldUserMsgsWithNum as the slice bounds it returns
OldBounds(msgs, n) ==
    IF n <= 0 THEN <<1, Len(msgs)>>
    ELSE IF n >= Len(msgs) THEN <<1, 0>>
    ELSE LET sysPos == FindSysPos(msgs)
             userPos == UserScan(msgs, Len(msgs), 0, n)
         IN IF userPos = 0
            THEN IF sysPos >= Len(msgs) THEN <<1, 0>>
                 ELSE <<sysPos + 1, Len(msgs)>>
            ELSE IF sysPos >= userPos THEN <<1, 0>>
                 ELSE <<sysPos + 1, userPos - 1>>

GetOldUserMsgsWithNum(msgs, n) ==
    SubSeq(msgs, OldBounds(msgs, n)[1], OldBounds(msgs, n)[2])

\* mutant of GetLastUserMsg: takes the last element of the window, not the first
GetLastUserMsgTakesLast(msgs) ==
    LET latestUserMsg == GetRecentUserMsgsWithNum(msgs, 1)
    IN IF Len(latestUserMsg) = 0
       THEN [msg |-> Msg("", Other), err |-> "no user message found"]
       ELSE [msg |-> latestUserMsg[Len(latestUserMsg)], err |-> Nil]

\* GetLastUserMsg: the pair (message, error) it returns
GetLastUserMsg(msgs) ==
    LET latestUserMsg == GetRecentUserMsgsWithNum(msgs, 1)
    IN IF Len(latestUserMsg) = 0
       THEN [msg |-> Msg("", Other), err |-> "no user message found"]
       ELSE [msg |-> latestUserMsg[1], err |-> Nil]

-----------------------------------------------------------------------------
(* The conversation state PromptMsg.  all is the list as received; the     *)
(* windows are slices of it, kept as bounds, and lastUserMsg is a          *)
(* reference into it (an index, 0 for a nil pointer).                      *)

\* NewPromptMsg: NoPromptMsg when no state can be constructed
NewPromptMsg(msgs, n) ==
    IF Len(msgs) = 0 THEN NoPromptMsg
    ELSE [all |-> msgs,
          systemMsg |-> GetSystemMsg(msgs),
          older |-> OldBounds(msgs, n),
          recent |-> RecentBounds(msgs, n),
          lastUserMsg |-> UserScan(msgs, Len(msgs), 0, 1)]

olderUserMsgList(pm) == SubSeq(pm.all, pm.older[1], pm.older[2])

recentUserMsgList(pm) == SubSeq(pm.all, pm.recent[1], pm.recent[2])

\* AssemblePrompt: system message, older window, recent window
AssemblePrompt(pm) ==
    <<pm.systemMsg>> \o olderUserMsgList(pm) \o recentUserMsgList(pm)

\* UpdateSystemMsg: replaces the content of the system message only
UpdateSystemMsg(pm, content) ==
    [pm EXCEPT !.systemMsg = Msg(pm.systemMsg.Role, content)]

-----------------------------------------------------------------------------
(* ToolDescriptionExtractor *)

ToolDescStartPattern == <<"S">>         \* "====\n\nTOOL USE"
ToolDescEndPattern == <<"E">>           \* "\n\n====\n\nCAPABILITIES"
ApplyDiffErrorMessage == <<"F">>        \* "Failed to parse apply_diff XML"
ApplyDiffSectionPattern == <<"D">>      \* "## apply_diff"
ApplyDiffNextSectionPattern == <<"H">>  \* "\n## "

\* strings.Index: the first position where pat occurs in s, 0 when none
RECURSIVE IndexFrom(_, _, _)
IndexFrom(s, pat, i) ==
    IF i + Len(pat) - 1 > Len(s) THEN 0
    ELSE IF SubSeq(s, i, i + Len(pat) - 1) = pat THEN i
    ELSE IndexFrom(s, pat, i + 1)

Index(s, pat) == IndexFrom(s, pat, 1)

\* extractSystemContent: the text of the system message
extractSystemContent(systemMsg) ==
    IF systemMsg.Content.kind = "string"
    THEN [text |-> systemMsg.Content.text, err |-> Nil]
    ELSE [text |-> <<>>, err |-> "unsupported system content"]

\* mutant of findToolDescriptionBounds: without an end marker the block
\* runs to the end of the text
findToolDescriptionBoundsOpenEnded(systemContent) ==
    LET startIndex == Index(systemContent, ToolDescStartPattern)
    IN IF startIndex = 0 THEN <<0, 0>>
       ELSE LET endIndex ==
                    Index(SubSeq(systemContent, startIndex, Len(systemContent)),
                          ToolDescEndPattern)
            IN IF endIndex = 0 THEN <<startIndex, Len(systemContent) + 1>>
               ELSE <<startIndex, endIndex + startIndex - 1>>

\* findToolDescriptionBounds: <<startIndex, endIndex>>, the position of the
\* start marker and the position of the end marker after it; <<0, 0>> when
\* the pair is not found
findToolDescriptionBounds(systemContent) ==
    LET startIndex == Index(systemContent, ToolDescStartPattern)
    IN IF startIndex = 0 THEN <<0, 0>>
       ELSE LET endIndex ==
                    Index(SubSeq(systemContent, startIndex, Len(systemContent)),
                          ToolDescEndPattern)
            IN IF endIndex = 0 THEN <<0, 0>>
               ELSE <<startIndex, endIndex + startIndex - 1>>

\* extractApplyDiffSection: from the apply_diff heading up to the next
\* heading, empty when either is missing
extractApplyDiffSection(toolDescription) ==
    LET startIndex == Index(toolDescription, ApplyDiffSectionPattern)
    IN IF startIndex = 0 THEN <<>>
       ELSE LET endIndex ==
                    Index(SubSeq(toolDescription, startIndex,
                                 Len(toolDescription)),
                          ApplyDiffNextSectionPattern)
            IN IF endIndex = 0 THEN <<>>
               ELSE SubSeq(toolDescription, startIndex,
                           endIndex + startIndex - 2)

hasApplyDiffError(contents) ==
    \E i \in 1..Len(contents) :
        Index(contents[i].Text, ApplyDiffErrorMessage) # 0

addApplyDiffUsage(contents, toolDescription) ==
    LET applyDiffContent == extractApplyDiffSection(toolDescription)
    IN IF applyDiffContent = <<>> THEN contents
       ELSE Append(contents,
                   Content(<<"<apply_diff_usage>">> \o applyDiffContent
                               \o <<"</apply_diff_usage>">>,
                           EphemeralCacheControl))

\* mutant of addToolDescription: the new block is put before the others
addToolDescriptionPrepended(contents, toolDescription) ==
    <<Content(<<"<tool_description>">> \o toolDescription
                  \o <<"</tool_description>">>,
              EphemeralCacheControl)>> \o contents

addToolDescription(contents, toolDescription) ==
    Append(contents,
           Content(<<"<tool_description>">> \o toolDescription
                       \o <<"</tool_description>">>,
                   EphemeralCacheControl))

\* addToolDescriptionToUserMessage: the state and the error it returns
addToolDescriptionToUserMessage(pm, toolDescription) ==
    IF pm.lastUserMsg = 0 THEN [pm |-> pm, err |-> Nil]
    ELSE LET got == ExtractMsgContent(pm.all[pm.lastUserMsg])
             contents ==
                 IF hasApplyDiffError(got.contents)
                 THEN addApplyDiffUsage(got.contents, toolDescription)
                 ELSE addToolDescription(got.contents, toolDescription)
         IN IF got.err # Nil THEN [pm |-> pm, err |-> got.err]
            ELSE [pm |-> [pm EXCEPT !.all[pm.lastUserMsg].Content =
                                        Blocks(contents)],
                  err |-> Nil]

\* ToolDescriptionExtractor.Execute: the fields of the stage instance t it
\* leaves (every path ends in passToNext; Handled and Err are never set)
ToolDescriptionExtractorStage(t) == [t EXCEPT !.passed = TRUE]

\* mutant of ToolDescriptionExtractorExecute: the cut takes the end marker
\* with it
ToolDescriptionExtractorExecuteCuttingEndMarker(pm) ==
    LET sys == extractSystemContent(pm.systemMsg)
        systemContent == sys.text
        bounds == findToolDescriptionBounds(systemContent)
        startIndex == bounds[1]
        endIndex == bounds[2]
        toolDescription == SubSeq(systemContent, startIndex, endIndex - 1)
        newSystemContent ==
            SubSeq(systemContent, 1, startIndex - 1)
                \o SubSeq(systemContent, endIndex + 1, Len(systemContent))
        added == addToolDescriptionToUserMessage(pm, toolDescription)
    IN IF sys.err # Nil THEN pm
       ELSE IF startIndex = 0 \/ endIndex = 0 THEN pm
       ELSE IF added.err # Nil THEN pm
       ELSE UpdateSystemMsg(added.pm, Str(newSystemContent))

\* ToolDescriptionExtractor.Execute: the state it leaves
ToolDescriptionExtractorExecute(pm) ==
    LET sys == extractSystemContent(pm.systemMsg)
        systemContent == sys.text
        bounds == findToolDescriptionBounds(systemContent)
        startIndex == bounds[1]
        endIndex == bounds[2]
        toolDescription == SubSeq(systemContent, startIndex, endIndex - 1)
        newSystemContent ==
            SubSeq(systemContent, 1, startIndex - 1)
                \o SubSeq(systemContent, endIndex, Len(systemContent))
        added == addToolDescriptionToUserMessage(pm, toolDescription)
    IN IF sys.err # Nil THEN pm
       ELSE IF startIndex = 0 \/ endIndex = 0 THEN pm
       ELSE IF added.err # Nil THEN pm
       ELSE UpdateSystemMsg(added.pm, Str(newSystemContent))

-----------------------------------------------------------------------------
(* LoopDetector *)

\* the fields of an embedded BaseProcessor as the constructor leaves them;
\* passed records that Execute has called passToNext
NewBaseProcessor == [Handled |-> FALSE, Err |-> Nil, passed |-> FALSE]

Space == " "

\* strings.TrimSpace on a text: the whitespace tokens at both ends removed
RECURSIVE TrimLeft(_)
TrimLeft(s) ==
    IF Len(s) > 0 /\ s[1] = Space THEN TrimLeft(SubSeq(s, 2, Len(s))) ELSE s

RECURSIVE TrimRight(_)
TrimRight(s) ==
    IF Len(s) > 0 /\ s[Len(s)] = Space
    THEN TrimRight(SubSeq(s, 1, Len(s) - 1))
    ELSE s

TrimSpace(s) == TrimRight(TrimLeft(s))

\* the concatenation of the texts of the text blocks of a list
RECURSIVE ConcatText(_)
ConcatText(blocks) ==
    IF Len(blocks) = 0 THEN <<>>
    ELSE (IF blocks[1].Type = ContTypeText THEN blocks[1].Text ELSE <<>>)
             \o ConcatText(SubSeq(blocks, 2, Len(blocks)))

\* utils.GetContentAsString: a string as it is, a list as the concatenation
\* of its text blocks, the empty string for any other value
GetContentAsString(content) ==
    IF content.kind = "string" THEN content.text
    ELSE IF content.kind = "blocks" THEN ConcatText(content.blocks)
    ELSE <<>>

\* the intervention block (its text is one token)
InterventionContent == Content(<<"intervention">>, Nil)

\* the loop of detectAndHandleLoops: backward through the older window,
\* collecting at most two assistant messages, the older one first
RECURSIVE AssistantScan(_, _, _)
AssistantScan(older, i, assistantMessages) ==
    IF i < 1 \/ Len(assistantMessages) >= 2 THEN assistantMessages
    ELSE IF older[i].Role = RoleAssistant
    THEN AssistantScan(older, i - 1, <<older[i]>> \o assistantMessages)
    ELSE AssistantScan(older, i - 1, assistantMessages)

\* mutant of addInterventionToUserMessage: the intervention replaces the
\* content of the last user message
addInterventionReplacing(pm) ==
    IF pm.lastUserMsg = 0
    THEN [pm |-> pm, err |-> "last user message is nil"]
    ELSE [pm |-> [pm EXCEPT !.all[pm.lastUserMsg].Content =
                                Blocks(<<InterventionContent>>)],
          err |-> Nil]

\* mutant of addInterventionToUserMessage: the intervention is added as a
\* new user message at the end of the conversation
addInterventionAsNewMessage(pm) ==
    [pm |-> [pm EXCEPT
                !.all = Append(pm.all,
                               Msg(RoleUser, Blocks(<<InterventionContent>>))),
                !.recent = IF pm.recent[2] < pm.recent[1]
                           THEN <<Len(pm.all) + 1, Len(pm.all) + 1>>
                           ELSE <<pm.recent[1], Len(pm.all) + 1>>],
     err |-> Nil]

\* addInterventionToUserMessage: the state and the error it returns
addInterventionToUserMessage(pm) ==
    IF pm.lastUserMsg = 0
    THEN [pm |-> pm, err |-> "last user message is nil"]
    ELSE LET got == ExtractMsgContent(pm.all[pm.lastUserMsg])
         IN IF got.err # Nil
            THEN [pm |-> pm, err |-> "failed to extract message contents"]
            ELSE [pm |-> [pm EXCEPT !.all[pm.lastUserMsg].Content =
                                        Blocks(Append(got.contents,
                                                      InterventionContent))],
                  err |-> Nil]

\* mutant of detectAndHandleLoops: compares the texts without trimming them
detectAndHandleLoopsUntrimmed(pm) ==
    LET older == olderUserMsgList(pm)
        assistantMessages == AssistantScan(older, Len(older), <<>>)
    IN IF Len(older) < 3 THEN pm
       ELSE IF Len(assistantMessages) < 2 THEN pm
       ELSE IF GetContentAsString(assistantMessages[1].Content)
                   = GetContentAsString(assistantMessages[2].Content)
       THEN addInterventionToUserMessage(pm).pm
       ELSE pm

\* detectAndHandleLoops: the state it leaves (an error of
\* addInterventionToUserMessage is logged only)
detectAndHandleLoops(pm) ==
    LET older == olderUserMsgList(pm)
        assistantMessages == AssistantScan(older, Len(older), <<>>)
    IN IF Len(older) < 3 THEN pm
       ELSE IF Len(assistantMessages) < 2 THEN pm
       ELSE IF TrimSpace(GetContentAsString(assistantMessages[1].Content))
                   = TrimSpace(GetContentAsString(assistantMessages[2].Content))
       THEN addInterventionToUserMessage(pm).pm
       ELSE pm

\* LoopDetector.Execute on the stage instance l: the state and the stage
\* fields it leaves
LoopDetectorExecute(pm, l) ==
    IF pm = NoPromptMsg
    THEN [pm |-> pm,
          stage |-> [l EXCEPT !.Err = "received prompt message is empty"]]
    ELSE [pm |-> detectAndHandleLoops(pm),
          stage |-> [l EXCEPT !.Handled = TRUE, !.passed = TRUE]]

-----------------------------------------------------------------------------
(* Specification SpecHelpers: the helpers applied to every short list *)

HelperContents == {Str(<<"a">>), Str(<<"b">>)}

HelperMessages == {Msg(r, c) : r \in Roles, c \in HelperContents}

\* the stand-alone stages as constructed, no call in progress, no request
\* a nil *VoucherActivityConfig (a record, so that it compares with one)
NoVoucherConfig == [Activities |-> <<>>]

\* no voucher activity configured, nothing stored, no request
VoucherRest ==
    /\ voucherConfig = NoVoucherConfig
    /\ redis = {}
    /\ clock = 0
    /\ calls = <<>>

\* a nil ConfigChangeHandler, and a handler with a dataId
NilHandler == [nil |-> TRUE, name |-> "", dataId |-> ""]

Handler(name, dataId) == [nil |-> FALSE, name |-> name, dataId |-> dataId]

\* no watcher constructed, no call made on one
WatcherRest ==
    /\ configWatcher = [client |-> FALSE, handlers |-> {},
                        isConnected |-> FALSE]
    /\ listening = {}
    /\ watcherRet = [op |-> "none", handler |-> NilHandler, err |-> Nil]

\* no OnChange call in progress
NoOnChangeCall ==
    [pc |-> "idle", data |-> <<>>, newConfig |-> 0, err |-> Nil,
     previous |-> 0, told |-> 0]

\* no handler constructed
HandlerRest ==
    /\ configHandler = [dataId |-> "", configPtr |-> 0, onChange |-> FALSE]
    /\ heap = <<>>
    /\ onChangeCall = NoOnChangeCall
    /\ notified = <<>>
    /\ observed = 0

\* no request
NoRequest == [pc |-> "none"]

IdentityRest ==
    /\ requestVerify = [Enabled |-> FALSE, EnabledTimeVerify |-> FALSE]
    /\ ginContext = NoRequest
    /\ nowUs = 0

ApiRest ==
    /\ VoucherRest
    /\ WatcherRest
    /\ HandlerRest
    /\ IdentityRest

Rest ==
    /\ ApiRest
    /\ toolDescriptionExtractor = NewBaseProcessor
    /\ loopDetector = NewBaseProcessor
    /\ frames = <<>>
    /\ requests = <<>>
    /\ processors = <<>>

Idle ==
    /\ Rest
    /\ promptMsg = NoPromptMsg
    /\ pc = "idle"
    /\ cfg = [NeedCompressUserPrompt |-> FALSE, Language |-> ""]
    /\ semanticSearch = Nil
    /\ userCompressor = Nil
    /\ executed = <<>>

InitHelpers ==
    /\ messages \in SeqsUpTo(HelperMessages, MaxMsgs)
    /\ num \in 0..MaxNum
    /\ op = "init"
    /\ ret = Nil
    /\ err = Nil
    /\ Idle

CallGetSystemMsg ==
    /\ op' = "GetSystemMsg"
    /\ ret' = GetSystemMsg(messages)
    /\ err' = Nil
    /\ UNCHANGED <<messages, num, promptMsg, pc, cfg, semanticSearch,
                   userCompressor, executed>>
    /\ UNCHANGED <<stageVars, frames, concVars>>
    /\ UNCHANGED apiVars

CallGetLastUserMsg ==
    /\ op' = "GetLastUserMsg"
    /\ ret' = GetLastUserMsg(messages).msg
    /\ err' = GetLastUserMsg(messages).err
    /\ UNCHANGED <<messages, num, promptMsg, pc, cfg, semanticSearch,
                   userCompressor, executed>>
    /\ UNCHANGED <<stageVars, frames, concVars>>
    /\ UNCHANGED apiVars

CallGetOldUserMsgsWithNum ==
    /\ op' = "GetOldUserMsgsWithNum"
    /\ ret' = GetOldUserMsgsWithNum(messages, num)
    /\ err' = Nil
    /\ UNCHANGED <<messages, num, promptMsg, pc, cfg, semanticSearch,
                   userCompressor, executed>>
    /\ UNCHANGED <<stageVars, frames, concVars>>
    /\ UNCHANGED apiVars

CallGetRecentUserMsgsWithNum ==
    /\ op' = "GetRecentUserMsgsWithNum"
    /\ ret' = GetRecentUserMsgsWithNum(messages, num)
    /\ err' = Nil
    /\ UNCHANGED <<messages, num, promptMsg, pc, cfg, semanticSearch,
                   userCompressor, executed>>
    /\ UNCHANGED <<stageVars, frames, concVars>>
    /\ UNCHANGED apiVars

\* the conversation state is parsed from the list
CallNewPromptMsg ==
    /\ op' = "NewPromptMsg"
    /\ promptMsg' = NewPromptMsg(messages, num)
    /\ ret' = Nil
    /\ err' = IF Len(messages) = 0 THEN "no messages" ELSE Nil
    /\ UNCHANGED <<messages, num, pc, cfg, semanticSearch, userCompressor,
                   executed>>
    /\ UNCHANGED <<stageVars, frames, concVars>>
    /\ UNCHANGED apiVars

\* the state is assembled with no stage having run on it
CallAssemblePrompt ==
    /\ op = "NewPromptMsg"
    /\ promptMsg # NoPromptMsg
    /\ op' = "AssemblePrompt"
    /\ ret' = AssemblePrompt(promptMsg)
    /\ err' = Nil
    /\ UNCHANGED <<messages, num, promptMsg, pc, cfg, semanticSearch,
                   userCompressor, executed>>
    /\ UNCHANGED <<stageVars, frames, concVars>>
    /\ UNCHANGED apiVars

NextHelpers ==
    \/ CallGetSystemMsg
    \/ CallGetLastUserMsg
    \/ CallGetOldUserMsgsWithNum
    \/ CallGetRecentUserMsgsWithNum
    \/ CallNewPromptMsg
    \/ CallAssemblePrompt

SpecHelpers == InitHelpers /\ [][NextHelpers]_vars

-----------------------------------------------------------------------------
(* Specification SpecStages: a conversation state is parsed from a list    *)
(* and the state-mutating stages are executed on it.                       *)

SystemTokens == {"S", "E", "D", "H"}

SystemContents ==
    {Str(t) : t \in SeqsUpTo(SystemTokens, MaxText)} \cup {Other}

UserContents ==
    {Str(<<"x">>), Str(<<"F">>),
     Blocks(<<Content(<<"x">>, Nil)>>),
     Blocks(<<Content(<<"x">>, Nil), Content(<<"F">>, Nil)>>),
     Other}

TailMessages ==
    {Msg(RoleUser, c) : c \in UserContents}
        \cup {Msg(RoleAssistant, Str(<<"x">>))}

StageInputs ==
    {head \o tail :
        head \in {<<>>} \cup {<<Msg(RoleSystem, c)>> : c \in SystemContents},
        tail \in SeqsUpTo(TailMessages, MaxTail)}

\* inputs with a history long enough for the LoopDetector: an optional
\* system message, up to MaxOlder earlier messages, an optional user message
LoopSystemContents == {Str(<<"a">>), Str(<<"S", "D", "H", "E">>)}

OlderMessages ==
    {Msg(RoleAssistant, c) :
        c \in {Str(<<"x">>), Str(<<Space, "x">>), Str(<<"y">>),
               Blocks(<<Content(<<"x">>, Nil)>>)}}
        \cup {Msg(RoleUser, Str(<<"F">>))}

LoopUserContents == {Str(<<"x">>), Blocks(<<Content(<<"x">>, Nil)>>), Other}

LoopInputs ==
    {head \o older \o last :
        head \in {<<>>} \cup {<<Msg(RoleSystem, c)>> : c \in LoopSystemContents},
        older \in SeqsUpTo(OlderMessages, MaxOlder),
        last \in {<<>>} \cup {<<Msg(RoleUser, c)>> : c \in LoopUserContents}}

InitStages ==
    /\ messages \in StageInputs \cup LoopInputs
    /\ num = 1
    /\ op = "init"
    /\ ret = Nil
    /\ err = Nil
    /\ Idle

StageParse ==
    /\ op = "init"
    /\ op' = "NewPromptMsg"
    /\ promptMsg' = NewPromptMsg(messages, num)
    /\ err' = IF Len(messages) = 0 THEN "no messages" ELSE Nil
    /\ UNCHANGED <<messages, num, ret, pc, cfg, semanticSearch, userCompressor,
                   executed>>
    /\ UNCHANGED <<stageVars, frames, concVars>>
    /\ UNCHANGED apiVars

ExecuteToolDescriptionExtractor ==
    /\ promptMsg # NoPromptMsg
    /\ Len(executed) < MaxRuns
    /\ op' = "ToolDescriptionExtractor.Execute"
    /\ promptMsg' = ToolDescriptionExtractorExecute(promptMsg)
    /\ executed' = Append(executed, "ToolDescriptionExtractor")
    /\ UNCHANGED <<messages, num, ret, err, pc, cfg, semanticSearch,
                   userCompressor>>
    /\ toolDescriptionExtractor' =
          ToolDescriptionExtractorStage(toolDescriptionExtractor)
    /\ UNCHANGED <<loopDetector, frames, concVars>>
    /\ UNCHANGED apiVars

ExecuteLoopDetector ==
    /\ op # "init"
    /\ Len(executed) < MaxRuns
    /\ op' = "LoopDetector.Execute"
    /\ promptMsg' = LoopDetectorExecute(promptMsg, loopDetector).pm
    /\ loopDetector' = LoopDetectorExecute(promptMsg, loopDetector).stage
    /\ executed' = Append(executed, "LoopDetector")
    /\ UNCHANGED <<messages, num, ret, err, pc, cfg, semanticSearch,
                   userCompressor>>
    /\ UNCHANGED <<toolDescriptionExtractor, frames, concVars>>
    /\ UNCHANGED apiVars

NextStages ==
    \/ StageParse
    \/ ExecuteToolDescriptionExtractor
    \/ ExecuteLoopDetector

SpecStages == InitStages /\ [][NextStages]_vars

-----------------------------------------------------------------------------
(* RagCompressProcessor.Arrange and the stages of its chain.  Arrange      *)
(* calls the first stage and every stage calls the next one from inside    *)
(* its Execute; pc is the stage about to execute and frames holds the      *)
(* Execute calls that have not returned yet.                               *)

\* a stage instance as its constructor leaves it
NewStage(next) ==
    [Handled |-> FALSE, Err |-> Nil, Latency |-> 0, SemanticResult |-> Nil,
     Calls |-> 0, next |-> next]

\* mutant of buildProcessorChain: without the override for disabled
\* compression
buildProcessorChainAlwaysCompress(config) ==
    [semanticSearch |-> NewStage("userCompressor"),
     userCompressor |-> NewStage("end")]

\* mutant of buildProcessorChain: the stages are built but never linked, so
\* the first stage has no next stage
buildProcessorChainUnlinked(config) ==
    [semanticSearch |-> NewStage("return"),
     userCompressor |-> NewStage("return")]

\* buildProcessorChain: the two stage instances with their next pointers
buildProcessorChain(config) ==
    [semanticSearch |->
         NewStage(IF ~config.NeedCompressUserPrompt THEN "end"
                  ELSE "userCompressor"),
     userCompressor |-> NewStage("end")]

\* SetLanguage: the language tag of the identity attached to the output
SetLanguage(language, msgs) ==
    IF language = "" \/ msgs[1].Content.kind # "string" THEN msgs
    ELSE [msgs EXCEPT ![1].Content =
              Str(msgs[1].Content.text \o <<"language", language>>)]

\* mutant of createProcessedPrompt: a summarizer that spent time on a
\* generation call is reported as having compressed
createProcessedPromptCompressedByLatency(config, pm, ss, uc) ==
    [Messages |-> SetLanguage(config.Language, AssemblePrompt(pm)),
     SemanticLatency |-> ss.Latency,
     SemanticContext |-> ss.SemanticResult,
     SemanticErr |-> ss.Err,
     SummaryLatency |-> uc.Latency,
     SummaryErr |-> uc.Err,
     IsUserPromptCompressed |-> uc.Latency > 0]

\* mutant of createProcessedPrompt: the search error is left out of the
\* diagnostics
createProcessedPromptWithoutSemanticErr(config, pm, ss, uc) ==
    [Messages |-> SetLanguage(config.Language, AssemblePrompt(pm)),
     SemanticLatency |-> ss.Latency,
     SemanticContext |-> ss.SemanticResult,
     SemanticErr |-> Nil,
     SummaryLatency |-> uc.Latency,
     SummaryErr |-> uc.Err,
     IsUserPromptCompressed |-> uc.Handled]

\* createProcessedPrompt
createProcessedPrompt(config, pm, ss, uc) ==
    [Messages |-> SetLanguage(config.Language, AssemblePrompt(pm)),
     SemanticLatency |-> ss.Latency,
     SemanticContext |-> ss.SemanticResult,
     SemanticErr |-> ss.Err,
     SummaryLatency |-> uc.Latency,
     SummaryErr |-> uc.Err,
     IsUserPromptCompressed |-> uc.Handled]

\* mutant of ArrangeParseFailure: the parse error is swallowed
ArrangeParseFailureSwallowed(msgs) ==
    [prompt |-> [Messages |-> msgs], err |-> Nil]

\* Arrange, lines 72-76: what it returns when no state can be constructed
ArrangeParseFailure(msgs) ==
    [prompt |-> [Messages |-> msgs], err |-> "create prompt message"]

\* mutant of ArrangeReturn: a stage error is returned as the operation's error
ArrangeReturnPropagates(config, pm, ss, uc) ==
    [prompt |-> createProcessedPrompt(config, pm, ss, uc),
     err |-> IF ss.Err # Nil THEN ss.Err ELSE uc.Err]

\* Arrange, line 87: what it returns once the chain has run
ArrangeReturn(config, pm, ss, uc) ==
    [prompt |-> createProcessedPrompt(config, pm, ss, uc), err |-> Nil]

\* the content of the last user message with one block appended (the state
\* unchanged when there is no such message or its content is unreadable)
AppendToLastUserMsg(pm, block) ==
    IF pm.lastUserMsg = 0 THEN pm
    ELSE LET got == ExtractMsgContent(pm.all[pm.lastUserMsg])
         IN IF got.err # Nil THEN pm
            ELSE [pm EXCEPT !.all[pm.lastUserMsg].Content =
                                Blocks(Append(got.contents, block))]

\* the older window replaced, in all, by one message
ReplaceOlderWindow(pm, msg) ==
    LET lo == pm.older[1]
        hi == pm.older[2]
        shift(i) == IF i > hi THEN i - (hi - lo) ELSE i
    IN [pm EXCEPT
           !.all = SubSeq(pm.all, 1, lo - 1) \o <<msg>>
                       \o SubSeq(pm.all, hi + 1, Len(pm.all)),
           !.older = <<lo, lo>>,
           !.recent = IF pm.recent[2] < pm.recent[1] THEN pm.recent
                      ELSE <<shift(pm.recent[1]), shift(pm.recent[2])>>,
           !.lastUserMsg = IF pm.lastUserMsg = 0 THEN 0
                           ELSE shift(pm.lastUserMsg)]

SummaryMsg == Msg(RoleAssistant, Str(<<"summary">>))

ArrangeContents == {Str(<<"a">>), Other}

ArrangeMessages ==
    {Msg(r, c) : r \in {RoleSystem, RoleUser, RoleAssistant},
                 c \in ArrangeContents}

Init ==
    /\ messages \in SeqsUpTo(ArrangeMessages, MaxMsgs)
    /\ num \in 1..MaxNum
    /\ cfg \in [NeedCompressUserPrompt : BOOLEAN, Language : {"", "zh"}]
    /\ op = "init"
    /\ ret = Nil
    /\ err = Nil
    /\ promptMsg = NoPromptMsg
    /\ pc = "idle"
    /\ semanticSearch = Nil
    /\ userCompressor = Nil
    /\ executed = <<>>
    /\ Rest

\* Arrange up to the call of the first stage
Arrange ==
    /\ pc = "idle"
    /\ op' = "Arrange"
    /\ promptMsg' = NewPromptMsg(messages, num)
    /\ IF promptMsg' = NoPromptMsg
       THEN /\ ret' = ArrangeParseFailure(messages).prompt
            /\ err' = ArrangeParseFailure(messages).err
            /\ pc' = "done"
            /\ UNCHANGED <<semanticSearch, userCompressor>>
       ELSE /\ semanticSearch' = buildProcessorChain(cfg).semanticSearch
            /\ userCompressor' = buildProcessorChain(cfg).userCompressor
            /\ pc' = "semanticSearch"
            /\ UNCHANGED <<ret, err>>
    /\ UNCHANGED <<messages, num, cfg, executed>>
    /\ UNCHANGED <<stageVars, frames, concVars>>
    /\ UNCHANGED apiVars

\* the outcomes of the collaborators: the semantic search succeeds with
\* passages, finds nothing, or fails (a timeout included); the generation
\* call succeeds or fails
SearchOutcomes == {"ok", "empty", "error"}

GenerationOutcomes == {"ok", "error"}

\* SemanticSearch.Execute up to passToNext: the state and the stage fields
\* it leaves
SemanticSearchResult(pm, ss, outcome) ==
    [pm |-> IF outcome = "ok"
            THEN AppendToLastUserMsg(pm, Content(<<"context">>, Nil))
            ELSE pm,
     stage |-> [ss EXCEPT
                   !.Calls = @ + 1,
                   !.Latency = 1,
                   !.Err = IF outcome = "error" THEN "semantic search failed"
                           ELSE Nil,
                   !.SemanticResult = IF outcome = "ok" THEN "context"
                                      ELSE Nil,
                   !.Handled = (outcome = "ok")]]

\* mutant of UserCompressorResult: a failed generation call is tried again
UserCompressorResultRetrying(pm, uc, over, generation) ==
    LET attempt == over /\ olderUserMsgList(pm) # <<>>
    IN [pm |-> IF attempt /\ generation = "ok"
               THEN ReplaceOlderWindow(pm, SummaryMsg)
               ELSE pm,
        stage |-> [uc EXCEPT
                      !.Calls = IF ~attempt THEN @
                                ELSE IF generation = "error" THEN @ + 2
                                ELSE @ + 1,
                      !.Latency = IF attempt THEN 1 ELSE 0,
                      !.Err = IF attempt /\ generation = "error"
                              THEN "summary generation failed" ELSE Nil,
                      !.Handled = attempt /\ generation = "ok"]]

\* UserCompressor.Execute up to passToNext: at most one generation call,
\* made when the prompt is over the token threshold and the older window is
\* not empty; Calls counts the calls made to the collaborator
UserCompressorResult(pm, uc, over, generation) ==
    LET attempt == over /\ olderUserMsgList(pm) # <<>>
    IN [pm |-> IF attempt /\ generation = "ok"
               THEN ReplaceOlderWindow(pm, SummaryMsg)
               ELSE pm,
        stage |-> [uc EXCEPT
                      !.Calls = IF attempt THEN @ + 1 ELSE @,
                      !.Latency = IF attempt THEN 1 ELSE 0,
                      !.Err = IF attempt /\ generation = "error"
                              THEN "summary generation failed" ELSE Nil,
                      !.Handled = attempt /\ generation = "ok"]]

\* what Execute does to the stage instance once passToNext has returned:
\* nothing, the call is its last statement
AfterPassToNext(stage) == stage

\* a frame of the call stack: the stage whose Execute is in progress and
\* the state it handed to the next stage
Frame(stage, pm) == [stage |-> stage, handed |-> pm]

SemanticSearchExecute ==
    /\ pc = "semanticSearch"
    /\ \E outcome \in SearchOutcomes :
          /\ semanticSearch' =
                SemanticSearchResult(promptMsg, semanticSearch, outcome).stage
          /\ promptMsg' =
                SemanticSearchResult(promptMsg, semanticSearch, outcome).pm
    /\ pc' = semanticSearch.next
    /\ executed' = Append(executed, "semanticSearch")
    /\ frames' = Append(frames, Frame("semanticSearch", promptMsg'))
    /\ UNCHANGED <<messages, num, op, ret, err, cfg, userCompressor>>
    /\ UNCHANGED <<stageVars, concVars>>
    /\ UNCHANGED apiVars

UserCompressorExecute ==
    /\ pc = "userCompressor"
    /\ \E over \in BOOLEAN, generation \in GenerationOutcomes :
          /\ userCompressor' =
                UserCompressorResult(promptMsg, userCompressor, over,
                                     generation).stage
          /\ promptMsg' =
                UserCompressorResult(promptMsg, userCompressor, over,
                                     generation).pm
    /\ pc' = userCompressor.next
    /\ executed' = Append(executed, "userCompressor")
    /\ frames' = Append(frames, Frame("userCompressor", promptMsg'))
    /\ UNCHANGED <<messages, num, op, ret, err, cfg, semanticSearch>>
    /\ UNCHANGED <<stageVars, concVars>>
    /\ UNCHANGED apiVars

\* End.Execute: the last stage of the chain, which hands control to no one
EndExecute ==
    /\ pc = "end"
    /\ pc' = "return"
    /\ executed' = Append(executed, "end")
    /\ frames' = Append(frames, Frame("end", promptMsg))
    /\ UNCHANGED <<messages, num, op, ret, err, cfg, promptMsg,
                   semanticSearch, userCompressor>>
    /\ UNCHANGED <<stageVars, concVars>>
    /\ UNCHANGED apiVars

\* the innermost Execute call in progress returns to its caller
StageReturn ==
    /\ pc = "return"
    /\ frames # <<>>
    /\ frames' = SubSeq(frames, 1, Len(frames) - 1)
    /\ semanticSearch' =
          IF frames[Len(frames)].stage = "semanticSearch"
          THEN AfterPassToNext(semanticSearch) ELSE semanticSearch
    /\ userCompressor' =
          IF frames[Len(frames)].stage = "userCompressor"
          THEN AfterPassToNext(userCompressor) ELSE userCompressor
    /\ UNCHANGED <<messages, num, op, ret, err, cfg, promptMsg, pc,
                   executed>>
    /\ UNCHANGED <<stageVars, concVars>>
    /\ UNCHANGED apiVars

\* Arrange's return once the call of the first stage has returned
ArrangeFinish ==
    /\ pc = "return"
    /\ frames = <<>>
    /\ ret' = ArrangeReturn(cfg, promptMsg, semanticSearch,
                            userCompressor).prompt
    /\ err' = ArrangeReturn(cfg, promptMsg, semanticSearch,
                            userCompressor).err
    /\ pc' = "done"
    /\ UNCHANGED <<messages, num, op, cfg, promptMsg, semanticSearch,
                   userCompressor, executed>>
    /\ UNCHANGED <<stageVars, frames, concVars>>
    /\ UNCHANGED apiVars

Next ==
    \/ Arrange
    \/ SemanticSearchExecute
    \/ UserCompressorExecute
    \/ EndExecute
    \/ StageReturn
    \/ ArrangeFinish

Spec == Init /\ [][Next]_vars

-----------------------------------------------------------------------------
(* Specification SpecConcurrent: NumRequests invocations of Arrange, each  *)
(* on the processor constructed for its request, their steps interleaved   *)
(* in every order.  An input is a message list, a configuration and the    *)
(* outcomes the collaborators have for that request.                       *)

ConcurrentMessages ==
    {<<>>,
     <<Msg(RoleUser, Str(<<"a">>))>>,
     <<Msg(RoleSystem, Str(<<"a">>)), Msg(RoleUser, Str(<<"b">>)),
       Msg(RoleAssistant, Str(<<"a">>)), Msg(RoleUser, Str(<<"a">>))>>}

ConcurrentInputs ==
    [messages : ConcurrentMessages,
     num : {1},
     cfg : [NeedCompressUserPrompt : BOOLEAN, Language : {""}],
     outcomes : [search : {"ok", "error"}, over : {TRUE},
                 generation : GenerationOutcomes]]

Requests == 1..NumRequests

\* mutant of ProcessorOf: every request is served by one shared processor
ProcessorOfShared(r) == 1

\* the processor an invocation runs on: the one constructed for its request
ProcessorOf(r) == r

\* Arrange run alone on an input: what it returns
ArrangeAlone(in) ==
    LET pm == NewPromptMsg(in.messages, in.num)
        chain == buildProcessorChain(in.cfg)
        searched == SemanticSearchResult(pm, chain.semanticSearch,
                                         in.outcomes.search)
        compressed ==
            IF chain.semanticSearch.next = "userCompressor"
            THEN UserCompressorResult(searched.pm, chain.userCompressor,
                                      in.outcomes.over, in.outcomes.generation)
            ELSE [pm |-> searched.pm, stage |-> chain.userCompressor]
    IN IF pm = NoPromptMsg THEN ArrangeParseFailure(in.messages)
       ELSE ArrangeReturn(in.cfg, compressed.pm, searched.stage,
                          compressed.stage)

singleVars == <<messages, num, op, ret, err, promptMsg, pc, cfg,
                semanticSearch, userCompressor, executed>>

InitConcurrent ==
    /\ messages = <<>>
    /\ num = 1
    /\ op = "init"
    /\ ret = Nil
    /\ err = Nil
    /\ promptMsg = NoPromptMsg
    /\ pc = "idle"
    /\ cfg = [NeedCompressUserPrompt |-> FALSE, Language |-> ""]
    /\ semanticSearch = Nil
    /\ userCompressor = Nil
    /\ executed = <<>>
    /\ toolDescriptionExtractor = NewBaseProcessor
    /\ loopDetector = NewBaseProcessor
    /\ frames = <<>>
    /\ ApiRest
    /\ \E ins \in [Requests -> ConcurrentInputs] :
          requests = [r \in Requests |->
                         [in |-> ins[r], pc |-> "idle",
                          promptMsg |-> NoPromptMsg, ret |-> Nil, err |-> Nil]]
    /\ processors = [r \in Requests |->
                        [semanticSearch |-> Nil, userCompressor |-> Nil]]

\* Arrange of request r up to the call of the first stage
ConcurrentArrange(r) ==
    LET pm == NewPromptMsg(requests[r].in.messages, requests[r].in.num)
    IN /\ requests[r].pc = "idle"
       /\ IF pm = NoPromptMsg
          THEN /\ requests' =
                     [requests EXCEPT
                         ![r].ret = ArrangeParseFailure(requests[r].in.messages).prompt,
                         ![r].err = ArrangeParseFailure(requests[r].in.messages).err,
                         ![r].pc = "done"]
               /\ UNCHANGED processors
          ELSE /\ requests' = [requests EXCEPT ![r].promptMsg = pm,
                                               ![r].pc = "semanticSearch"]
               /\ processors' =
                     [processors EXCEPT
                         ![ProcessorOf(r)] = buildProcessorChain(requests[r].in.cfg)]
       /\ UNCHANGED <<singleVars, stageVars, frames>>
    /\ UNCHANGED apiVars

ConcurrentSemanticSearch(r) ==
    LET p == ProcessorOf(r)
        res == SemanticSearchResult(requests[r].promptMsg,
                                    processors[p].semanticSearch,
                                    requests[r].in.outcomes.search)
    IN /\ requests[r].pc = "semanticSearch"
       /\ requests' = [requests EXCEPT
                          ![r].promptMsg = res.pm,
                          ![r].pc = processors[p].semanticSearch.next]
       /\ processors' = [processors EXCEPT ![p].semanticSearch = res.stage]
       /\ UNCHANGED <<singleVars, stageVars, frames>>
    /\ UNCHANGED apiVars

ConcurrentUserCompressor(r) ==
    LET p == ProcessorOf(r)
        res == UserCompressorResult(requests[r].promptMsg,
                                    processors[p].userCompressor,
                                    requests[r].in.outcomes.over,
                                    requests[r].in.outcomes.generation)
    IN /\ requests[r].pc = "userCompressor"
       /\ requests' = [requests EXCEPT
                          ![r].promptMsg = res.pm,
                          ![r].pc = processors[p].userCompressor.next]
       /\ processors' = [processors EXCEPT ![p].userCompressor = res.stage]
       /\ UNCHANGED <<singleVars, stageVars, frames>>
    /\ UNCHANGED apiVars

\* the End stage of request r, the return of its chain and of Arrange
ConcurrentFinish(r) ==
    LET p == ProcessorOf(r)
        out == ArrangeReturn(requests[r].in.cfg, requests[r].promptMsg,
                             processors[p].semanticSearch,
                             processors[p].userCompressor)
    IN /\ requests[r].pc = "end"
       /\ requests' = [requests EXCEPT ![r].ret = out.prompt,
                                       ![r].err = out.err,
                                       ![r].pc = "done"]
       /\ UNCHANGED processors
       /\ UNCHANGED <<singleVars, stageVars, frames>>
    /\ UNCHANGED apiVars

NextConcurrent ==
    \/ \E r \in Requests : ConcurrentArrange(r)
    \/ \E r \in Requests : ConcurrentSemanticSearch(r)
    \/ \E r \in Requests : ConcurrentUserCompressor(r)
    \/ \E r \in Requests : ConcurrentFinish(r)

SpecConcurrent == InitConcurrent /\ [][NextConcurrent]_vars

-----------------------------------------------------------------------------
(* Vocabulary of the properties, stated on positions of the list *)

UserIdx(msgs) == {i \in 1..Len(msgs) : msgs[i].Role = RoleUser}

SysIdx(msgs) == {i \in 1..Len(msgs) : msgs[i].Role = RoleSystem}

MinOf(S) == CHOOSE x \in S : \A y \in S : x <= y

MaxOf(S) == CHOOSE x \in S : \A y \in S : y <= x

\* the position of the k-th user message counted from the end
KthUserFromEnd(msgs, k) ==
    CHOOSE p \in UserIdx(msgs) :
        Cardinality({i \in UserIdx(msgs) : i >= p}) = k

\* everything after the first system message (the whole list without one)
AfterSystem(msgs) ==
    IF SysIdx(msgs) = {} THEN msgs
    ELSE SubSeq(msgs, MinOf(SysIdx(msgs)) + 1, Len(msgs))

FewerUsersThanK == num > 0 /\ Cardinality(UserIdx(messages)) < num

Parsed == op = "NewPromptMsg" /\ promptMsg # NoPromptMsg

-----------------------------------------------------------------------------
(* Properties of the helpers and of the windows *)

\* C4 (as claimed; refuted): with no stage run, system message + older
\* window + recent window is the input list, for every non-empty list and
\* every K > 0.
C4_PassThroughIsIdentity ==
    (op = "AssemblePrompt" /\ num > 0) => ret = messages

C6_RecentIsSuffixFromKthUser ==
    (op = "GetRecentUserMsgsWithNum" /\ num > 0) =>
        IF Cardinality(UserIdx(messages)) >= num
        THEN /\ ret = SubSeq(messages, KthUserFromEnd(messages, num),
                             Len(messages))
             /\ ret[1].Role = RoleUser
             /\ Cardinality(UserIdx(ret)) = num
        ELSE ret = <<>>

C6_Witness ==
    /\ op = "GetRecentUserMsgsWithNum"
    /\ num > 0
    /\ Cardinality(UserIdx(messages)) > num
    /\ Len(ret) < Len(messages)
    /\ Len(ret) > num

C8_FirstSystemMsgWins ==
    (op = "GetSystemMsg" /\ SysIdx(messages) # {}) =>
        ret = messages[MinOf(SysIdx(messages))]

C8_Witness ==
    /\ op = "GetSystemMsg"
    /\ Cardinality(SysIdx(messages)) >= 2
    /\ MinOf(SysIdx(messages)) > 1
    /\ ret # messages[MaxOf(SysIdx(messages))]

\* C9: on a list with no system message (the empty list too) GetSystemMsg
\* returns a message with role system and empty content, without an error,
\* and leaves the list as it was.
C9_SyntheticSystemMsg ==
    [][(op' = "GetSystemMsg" /\ SysIdx(messages) = {}) =>
          /\ ret' = [Role |-> "system",
                     Content |-> [kind |-> "string", text |-> <<>>,
                                  blocks |-> <<>>]]
          /\ err' = Nil
          /\ messages' = messages]_vars

C9_Witness ==
    /\ op = "GetSystemMsg"
    /\ SysIdx(messages) = {}
    /\ Len(messages) >= 2
    /\ ret.Role = "system"
    /\ ret.Content.text = <<>>

\* C10: GetLastUserMsg returns the most recent user message of the list,
\* whatever follows it, and reports "no user message found" exactly when
\* the list holds no user message.
C10_LastUserMsg ==
    op = "GetLastUserMsg" =>
        IF UserIdx(messages) = {}
        THEN err = "no user message found"
        ELSE err = Nil /\ ret = messages[MaxOf(UserIdx(messages))]

C10_Witness ==
    /\ op = "GetLastUserMsg"
    /\ Cardinality(UserIdx(messages)) >= 2
    /\ MaxOf(UserIdx(messages)) < Len(messages)
    /\ messages[MinOf(UserIdx(messages))] # ret
    /\ err = Nil

-----------------------------------------------------------------------------
(* Properties of the ToolDescriptionExtractor *)

\* the content blocks of the last user message of a state (none without one)
LastUserBlocks(pm) ==
    IF pm.lastUserMsg = 0 THEN <<>>
    ELSE ExtractMsgContent(pm.all[pm.lastUserMsg]).contents

\* the last user message of q is that of p with one more block at its end,
\* and the block carries text of the tool description td
GainedToolBlock(p, q, td) ==
    /\ p.lastUserMsg # 0
    /\ Len(LastUserBlocks(q)) = Len(LastUserBlocks(p)) + 1
    /\ SubSeq(LastUserBlocks(q), 1, Len(LastUserBlocks(p))) = LastUserBlocks(p)
    /\ \E i \in 1..Len(td) :
          Index(LastUserBlocks(q)[Len(LastUserBlocks(q))].Text, <<td[i]>>) # 0

\* the tool description held by the system message of a state
ToolBlockOf(pm) ==
    LET text == pm.systemMsg.Content.text
        b == findToolDescriptionBounds(text)
    IN IF b[1] = 0 THEN <<>> ELSE SubSeq(text, b[1], b[2] - 1)

\* C1 (as claimed; refuted): an execution of ToolDescriptionExtractor
\* removes the tool-description block from the system message only if, in
\* the same execution, a block carrying tool-description text was appended
\* to lastUserMsg.
C1_RemovedOnlyIfInjected ==
    [][(op' = "ToolDescriptionExtractor.Execute"
            /\ promptMsg'.systemMsg # promptMsg.systemMsg)
          => GainedToolBlock(promptMsg, promptMsg', ToolBlockOf(promptMsg))]_vars

-----------------------------------------------------------------------------
(* Properties of Arrange *)

Returned == op = "Arrange" /\ pc = "done"

\* C2: once the conversation state has been constructed, Arrange returns
\* the assembled message list and a nil error whatever the stages did; a
\* failure of the semantic search or of the summarization shows only in
\* SemanticErr and SummaryErr of the result.
C2_StageFailuresNeverSurface ==
    (Returned /\ promptMsg # NoPromptMsg) =>
        /\ err = Nil
        /\ Len(ret.Messages) >= 1
        /\ ret.Messages = SetLanguage(cfg.Language, AssemblePrompt(promptMsg))
        /\ ret.SemanticErr = semanticSearch.Err
        /\ ret.SummaryErr = userCompressor.Err

C2_Witness ==
    /\ Returned
    /\ promptMsg # NoPromptMsg
    /\ executed = <<"semanticSearch", "userCompressor", "end">>
    /\ ret.SemanticErr # Nil
    /\ ret.SummaryErr # Nil
    /\ err = Nil

\* C3: when the conversation state cannot be constructed, Arrange returns
\* an error, no stage is built or executed, and the ProcessedPrompt holds
\* the input list as it was given.
C3_ParseFailureFallsBack ==
    (Returned /\ promptMsg = NoPromptMsg) =>
        /\ err # Nil
        /\ executed = <<>>
        /\ semanticSearch = Nil
        /\ userCompressor = Nil
        /\ ret.Messages = messages

C3_Witness ==
    /\ Returned
    /\ promptMsg = NoPromptMsg
    /\ err # Nil
    /\ ret.Messages = messages

-----------------------------------------------------------------------------
(* Properties of the LoopDetector *)

\* a text without the whitespace at its ends, stated on positions
Trimmed(t) ==
    LET solid == {i \in 1..Len(t) : t[i] # Space}
    IN IF solid = {} THEN <<>> ELSE SubSeq(t, MinOf(solid), MaxOf(solid))

\* positions, in all, of the assistant messages of the older window
OlderAssistantIdx(pm) ==
    {i \in pm.older[1]..pm.older[2] : pm.all[i].Role = RoleAssistant}

OlderLen(pm) ==
    IF pm.older[2] < pm.older[1] THEN 0 ELSE pm.older[2] - pm.older[1] + 1

\* the older window has at least 3 messages and its two most recent
\* assistant messages carry the same text once trimmed
LoopCondition(pm) ==
    /\ OlderLen(pm) >= 3
    /\ Cardinality(OlderAssistantIdx(pm)) >= 2
    /\ LET last == MaxOf(OlderAssistantIdx(pm))
           prev == MaxOf(OlderAssistantIdx(pm) \ {last})
       IN Trimmed(GetContentAsString(pm.all[last].Content))
              = Trimmed(GetContentAsString(pm.all[prev].Content))

\* the last user message exists and its content can be read as blocks
Injectable(pm) ==
    /\ pm.lastUserMsg # 0
    /\ ExtractMsgContent(pm.all[pm.lastUserMsg]).err = Nil

\* q is p with exactly the intervention block appended to lastUserMsg
GainedIntervention(p, q) ==
    /\ p.lastUserMsg # 0
    /\ q = [p EXCEPT !.all[p.lastUserMsg].Content =
                         Blocks(Append(LastUserBlocks(p), InterventionContent))]

LoopDetectorRan ==
    op' = "LoopDetector.Execute" /\ promptMsg # NoPromptMsg

\* C11 (as claimed; refuted): an execution of LoopDetector appends exactly
\* one intervention block to lastUserMsg when the older window has at
\* least 3 messages and its two most recent assistant messages have equal
\* trimmed text, and changes nothing otherwise.
C11_InterventionIffLoop ==
    [][LoopDetectorRan =>
          IF LoopCondition(promptMsg)
          THEN GainedIntervention(promptMsg, promptMsg')
          ELSE promptMsg' = promptMsg]_vars

\* C11 (amended): with a last user message whose content can be read as
\* blocks, an execution of LoopDetector appends exactly one intervention
\* block to it when the older window has at least 3 messages and its two
\* most recent assistant messages have equal trimmed text; in every other
\* case (texts differ, fewer than two assistant messages, fewer than 3
\* older messages, no last user message, unreadable content) it changes
\* nothing.
C11_InterventionIffLoopAndInjectable ==
    [][LoopDetectorRan =>
          IF LoopCondition(promptMsg) /\ Injectable(promptMsg)
          THEN GainedIntervention(promptMsg, promptMsg')
          ELSE promptMsg' = promptMsg]_vars

\* an intervention appended where the two assistant texts are equal only
\* after trimming
C11_Witness ==
    /\ op = "LoopDetector.Execute"
    /\ executed = <<"LoopDetector">>
    /\ promptMsg # NoPromptMsg
    /\ LoopCondition(promptMsg)
    /\ LET last == MaxOf(OlderAssistantIdx(promptMsg))
           prev == MaxOf(OlderAssistantIdx(promptMsg) \ {last})
       IN promptMsg.all[last].Content # promptMsg.all[prev].Content
    /\ GainedIntervention(NewPromptMsg(messages, num), promptMsg)

\* q differs from p at most in the content of the last user message: the
\* system message, the extent of both windows, the reference lastUserMsg,
\* the number of messages and every other message (so their order) are
\* those of p, and the last user message keeps its role
SameExceptLastUserContent(p, q) ==
    /\ q.systemMsg = p.systemMsg
    /\ q.older = p.older
    /\ q.recent = p.recent
    /\ q.lastUserMsg = p.lastUserMsg
    /\ Len(q.all) = Len(p.all)
    /\ \A i \in 1..Len(p.all) :
          IF i = p.lastUserMsg THEN q.all[i].Role = p.all[i].Role
          ELSE q.all[i] = p.all[i]

\* the blocks of the last user message of q are those of p, in their
\* order, followed by exactly one more block
AppendedOneBlock(p, q) ==
    /\ p.lastUserMsg # 0
    /\ Len(LastUserBlocks(q)) = Len(LastUserBlocks(p)) + 1
    /\ SubSeq(LastUserBlocks(q), 1, Len(LastUserBlocks(p))) = LastUserBlocks(p)

\* C12: an execution of LoopDetector changes nothing in the conversation
\* state except possibly appending one block at the end of the content of
\* lastUserMsg: system message, windows, number and order of messages and
\* the blocks lastUserMsg already had (a plain string counting as its one
\* text block) stay as they were.
C12_LoopDetectorAdditive ==
    [][LoopDetectorRan =>
          /\ SameExceptLastUserContent(promptMsg, promptMsg')
          /\ \/ promptMsg' = promptMsg
             \/ AppendedOneBlock(promptMsg, promptMsg')]_vars

\* an execution that did append, to a last user message that already held
\* a block
C12_Witness ==
    /\ op = "LoopDetector.Execute"
    /\ executed = <<"LoopDetector">>
    /\ promptMsg # NoPromptMsg
    /\ promptMsg # NewPromptMsg(messages, num)
    /\ AppendedOneBlock(NewPromptMsg(messages, num), promptMsg)
    /\ Len(LastUserBlocks(promptMsg)) = 2

-----------------------------------------------------------------------------
(* Properties of the ToolDescriptionExtractor, stated on positions *)

\* the text of the system message (empty when it is no plain string)
SystemText(pm) == pm.systemMsg.Content.text

\* position of the first start marker, and of the first end marker after it
FirstStart(text) ==
    MinOf({i \in 1..Len(text) : text[i] = ToolDescStartPattern[1]})

FirstEndAfter(text, i) ==
    MinOf({j \in i..Len(text) : text[j] = ToolDescEndPattern[1]})

\* the text holds a start marker followed by an end marker
HasDelimiterPair(text) ==
    \E i, j \in 1..Len(text) :
        /\ i < j
        /\ text[i] = ToolDescStartPattern[1]
        /\ text[j] = ToolDescEndPattern[1]

\* the tool-usage block: from the first start marker up to the end marker
ToolUsageBlock(text) ==
    SubSeq(text, FirstStart(text), FirstEndAfter(text, FirstStart(text)) - 1)

\* the text with the tool-usage block cut out
WithoutToolUsageBlock(text) ==
    SubSeq(text, 1, FirstStart(text) - 1)
        \o SubSeq(text, FirstEndAfter(text, FirstStart(text)), Len(text))

\* the message carries the parse-failure marker
HasFailureMarker(msg) ==
    Index(GetContentAsString(msg.Content), ApplyDiffErrorMessage) # 0

\* the last block of the last user message
NewBlock(pm) == LastUserBlocks(pm)[Len(LastUserBlocks(pm))]

ExtractorRan == op' = "ToolDescriptionExtractor.Execute"

\* the system message lost its tool-usage block and lastUserMsg gained, after
\* its blocks, one tagged block holding the whole tool-usage block
MovedWholeBlock(p, q) ==
    /\ q.systemMsg = Msg(p.systemMsg.Role, Str(WithoutToolUsageBlock(SystemText(p))))
    /\ AppendedOneBlock(p, q)
    /\ NewBlock(q).Text = <<"<tool_description>">>
                              \o ToolUsageBlock(SystemText(p))
                              \o <<"</tool_description>">>

\* C13 (as claimed; refuted): when the system message holds the start
\* marker followed by the end marker and a last user message exists that
\* carries no parse-failure marker, an execution of the extractor leaves a
\* system message without the tool-usage block and a lastUserMsg with
\* exactly one new tagged block, after its own, holding the whole block.
C13_WholeBlockMoved ==
    [][(/\ ExtractorRan
        /\ HasDelimiterPair(SystemText(promptMsg))
        /\ promptMsg.lastUserMsg # 0
        /\ ~HasFailureMarker(promptMsg.all[promptMsg.lastUserMsg]))
          => MovedWholeBlock(promptMsg, promptMsg')]_vars

\* C13 (amended): the same, for a last user message whose content can be
\* read as blocks; when it cannot, the execution changes nothing.
C13_WholeBlockMovedIfReadable ==
    [][(/\ ExtractorRan
        /\ HasDelimiterPair(SystemText(promptMsg))
        /\ promptMsg.lastUserMsg # 0
        /\ ~HasFailureMarker(promptMsg.all[promptMsg.lastUserMsg]))
          => IF Injectable(promptMsg)
             THEN MovedWholeBlock(promptMsg, promptMsg')
             ELSE promptMsg' = promptMsg]_vars

\* a block of two tokens or more moved to a last user message that held
\* one block
C13_Witness ==
    /\ op = "ToolDescriptionExtractor.Execute"
    /\ executed = <<"ToolDescriptionExtractor">>
    /\ HasDelimiterPair(SystemText(NewPromptMsg(messages, num)))
    /\ ~HasFailureMarker(messages[Len(messages)])
    /\ MovedWholeBlock(NewPromptMsg(messages, num), promptMsg)
    /\ Len(ToolUsageBlock(SystemText(NewPromptMsg(messages, num)))) >= 2
    /\ Len(LastUserBlocks(promptMsg)) = 2

\* some message of the conversation carries the parse-failure marker
MarkerInConversation(pm) ==
    \E i \in 1..Len(pm.all) : HasFailureMarker(pm.all[i])

\* the block holds an apply_diff sub-heading
HasApplyDiffSubsection(block) ==
    \E i \in 1..Len(block) : block[i] = ApplyDiffSectionPattern[1]

\* the apply_diff subsection of a block: from its sub-heading up to the next
\* sub-heading, or up to the end of the block when it is the last one
ApplyDiffSubsection(block) ==
    LET from == MinOf({i \in 1..Len(block) :
                          block[i] = ApplyDiffSectionPattern[1]})
        next == {j \in from..Len(block) :
                    block[j] = ApplyDiffNextSectionPattern[1]}
    IN SubSeq(block, from, IF next = {} THEN Len(block) ELSE MinOf(next) - 1)

\* lastUserMsg gained, after its blocks, one tagged block holding only the
\* apply_diff subsection of the tool-usage block
InjectedSubsectionOnly(p, q) ==
    /\ AppendedOneBlock(p, q)
    /\ NewBlock(q).Text = <<"<apply_diff_usage>">>
                              \o ApplyDiffSubsection(ToolUsageBlock(SystemText(p)))
                              \o <<"</apply_diff_usage>">>

\* C14 (as claimed; refuted): with a tool-usage block in the system message
\* and a readable last user message, the extractor injects only the
\* apply_diff subsection when some message of the conversation carries the
\* parse-failure marker and the block holds that subsection, and the whole
\* block when no message carries the marker.
C14_SubsectionIffMarkerAnywhere ==
    [][(/\ ExtractorRan
        /\ HasDelimiterPair(SystemText(promptMsg))
        /\ Injectable(promptMsg))
          => /\ (/\ MarkerInConversation(promptMsg)
                 /\ HasApplyDiffSubsection(ToolUsageBlock(SystemText(promptMsg))))
                    => InjectedSubsectionOnly(promptMsg, promptMsg')
             /\ ~MarkerInConversation(promptMsg)
                    => MovedWholeBlock(promptMsg, promptMsg')]_vars

\* C15: when the system message holds no delimiter pair (no start marker,
\* or no end marker after it), an execution of the extractor changes
\* nothing in the conversation state (system message and lastUserMsg
\* included), leaves the handled flag of the stage false and passes control
\* on.
C15_NoPairNoOp ==
    [][(ExtractorRan /\ ~HasDelimiterPair(SystemText(promptMsg)))
          => /\ promptMsg' = promptMsg
             /\ toolDescriptionExtractor'.Handled = FALSE
             /\ toolDescriptionExtractor'.passed]_vars

\* an execution on a system message with a start marker and no end marker
\* after it, in a conversation with a last user message
C15_Witness ==
    /\ op = "ToolDescriptionExtractor.Execute"
    /\ executed = <<"ToolDescriptionExtractor">>
    /\ \E i \in 1..Len(SystemText(promptMsg)) :
          SystemText(promptMsg)[i] = ToolDescStartPattern[1]
    /\ ~HasDelimiterPair(SystemText(promptMsg))
    /\ promptMsg.lastUserMsg # 0
    /\ promptMsg = NewPromptMsg(messages, num)
    /\ toolDescriptionExtractor.passed
    /\ ~toolDescriptionExtractor.Handled

-----------------------------------------------------------------------------
(* Properties of both stand-alone stages *)

\* C16 (as claimed; refuted): a stage executed on a conversation state
\* without a last user message mutates nothing in that state, leaves its
\* handled flag false and passes control on; LoopDetector and
\* ToolDescriptionExtractor alike.
C16_NoLastUserMsgNotHandled ==
    [][(/\ promptMsg # NoPromptMsg
        /\ promptMsg.lastUserMsg = 0
        /\ op' \in {"LoopDetector.Execute", "ToolDescriptionExtractor.Execute"})
          => /\ promptMsg' = promptMsg
             /\ op' = "LoopDetector.Execute"
                    => ~loopDetector'.Handled /\ loopDetector'.passed
             /\ op' = "ToolDescriptionExtractor.Execute"
                    => /\ ~toolDescriptionExtractor'.Handled
                       /\ toolDescriptionExtractor'.passed]_vars

-----------------------------------------------------------------------------
(* Properties of the stage chain of Arrange *)

StageBegins == executed' # executed

StageReturns == Len(frames') < Len(frames)

\* C17 (as claimed; refuted): a stage begins only after every stage before
\* it has returned, working on the state its predecessor left; and once a
\* stage has handed control on it changes neither the conversation state
\* nor a stage's outcome fields.
C17_NextBeginsAfterReturn ==
    [][/\ StageBegins =>
            /\ frames = <<>>
            /\ frames # <<>> => promptMsg = frames[Len(frames)].handed
       /\ StageReturns =>
            UNCHANGED <<promptMsg, semanticSearch, userCompressor>>]_vars

\* C17 (amended): a stage begins only when the stage before it hands
\* control on, inside that stage's Execute call (every stage begun is still
\* in its call, none has returned), and it works on the state its
\* predecessor handed over; handing control on is the last thing a stage
\* does: the calls return, innermost first, only after the last stage has
\* run, and a return changes neither the conversation state nor a stage's
\* outcome fields; Arrange reads the result once all calls have returned.
C17_NextBeginsAtHandOver ==
    [][/\ StageBegins =>
            /\ Len(frames) = Len(executed)
            /\ \A i \in 1..Len(frames) : frames[i].stage = executed[i]
            /\ frames # <<>> => promptMsg = frames[Len(frames)].handed
       /\ StageReturns =>
            /\ executed[Len(executed)] = "end"
            /\ frames' = SubSeq(frames, 1, Len(frames) - 1)
            /\ UNCHANGED <<promptMsg, semanticSearch, userCompressor>>
       /\ pc' = "done" => frames = <<>>]_vars

\* Arrange has returned after a chain of three stages, of which the first
\* two both changed the conversation state
C17_Witness ==
    /\ Returned
    /\ executed = <<"semanticSearch", "userCompressor", "end">>
    /\ frames = <<>>
    /\ semanticSearch.Handled
    /\ userCompressor.Handled
    /\ promptMsg.all # messages

\* the stage order the configuration flag asks for
StageOrder ==
    IF cfg.NeedCompressUserPrompt
    THEN <<"semanticSearch", "userCompressor", "end">>
    ELSE <<"semanticSearch", "end">>

\* C18: the chain of an Arrange call follows the configuration flag: the
\* stages execute in the order semantic search, user compressor, end when
\* compression is enabled, and semantic search, end when it is disabled;
\* the links made when the chain was built stay as they are; and with
\* compression disabled the user compressor is never executed and the
\* result reports IsUserPromptCompressed = false and no summary error.
C18_ChainFollowsFlag ==
    /\ Len(executed) <= Len(StageOrder)
    /\ executed = SubSeq(StageOrder, 1, Len(executed))
    /\ (pc \notin {"idle", "done"} \/ (Returned /\ promptMsg # NoPromptMsg))
          => /\ semanticSearch.next = StageOrder[2]
             /\ userCompressor.next = "end"
    /\ (Returned /\ promptMsg # NoPromptMsg)
          => /\ executed = StageOrder
             /\ ~cfg.NeedCompressUserPrompt
                    => /\ ret.IsUserPromptCompressed = FALSE
                       /\ ret.SummaryErr = Nil

\* Arrange has returned with compression disabled on a conversation whose
\* older window held something to compress
C18_Witness ==
    /\ Returned
    /\ promptMsg # NoPromptMsg
    /\ ~cfg.NeedCompressUserPrompt
    /\ executed = <<"semanticSearch", "end">>
    /\ olderUserMsgList(promptMsg) # <<>>
    /\ ret.IsUserPromptCompressed = FALSE
    /\ ret.SummaryErr = Nil

-----------------------------------------------------------------------------
(* Properties of concurrent invocations *)

-----------------------------------------------------------------------------
(* Invariant of the conversation state under the stand-alone stages *)

\* C20: after any sequence of executions of ToolDescriptionExtractor and
\* LoopDetector, the list holds the messages it was parsed from, with their
\* roles and in their order; only the content of the system message and of
\* the last user message may differ; the windows still cover the same
\* positions; and lastUserMsg refers to a message of the list, its most
\* recent user message (to none only when the list has no user message).
C20_NeverReordered ==
    promptMsg # NoPromptMsg =>
        /\ Len(promptMsg.all) = Len(messages)
        /\ \A i \in 1..Len(messages) :
              /\ promptMsg.all[i].Role = messages[i].Role
              /\ i # promptMsg.lastUserMsg => promptMsg.all[i] = messages[i]
        /\ promptMsg.systemMsg.Role = RoleSystem
        /\ promptMsg.older = NewPromptMsg(messages, num).older
        /\ promptMsg.recent = NewPromptMsg(messages, num).recent
        /\ promptMsg.lastUserMsg \in 0..Len(promptMsg.all)
        /\ IF UserIdx(promptMsg.all) = {} THEN promptMsg.lastUserMsg = 0
           ELSE promptMsg.lastUserMsg = MaxOf(UserIdx(promptMsg.all))

\* both stages have run and both have changed the state: the system
\* message lost its block and the last user message gained two blocks
C20_Witness ==
    /\ executed = <<"ToolDescriptionExtractor", "LoopDetector">>
    /\ promptMsg # NoPromptMsg
    /\ promptMsg.systemMsg # NewPromptMsg(messages, num).systemMsg
    /\ promptMsg.lastUserMsg # 0
    /\ Len(LastUserBlocks(promptMsg))
           = Len(LastUserBlocks(NewPromptMsg(messages, num))) + 2
    /\ NewBlock(promptMsg) = InterventionContent

-----------------------------------------------------------------------------
(* Properties of the collaborator stages of Arrange *)

\* the number of times a stage was executed in the current Arrange call
CountOf(name) == Cardinality({i \in DOMAIN executed : executed[i] = name})

\* the chain of the current Arrange call exists
ChainBuilt == op = "Arrange" /\ promptMsg # NoPromptMsg

\* C21: in one Arrange call the user compressor is executed at most once
\* and makes at most one call to the generation collaborator, whatever the
\* token count and whether or not the call succeeded: a failed call is not
\* tried again.
C21_AtMostOneGenerationCall ==
    ChainBuilt
       => /\ CountOf("userCompressor") <= 1
          /\ userCompressor.Calls <= 1
          /\ userCompressor.Calls <= CountOf("userCompressor")

\* Arrange has returned after a generation call that failed, and the
\* collaborator was called once
C21_Witness ==
    /\ Returned
    /\ promptMsg # NoPromptMsg
    /\ userCompressor.Err # Nil
    /\ userCompressor.Calls = 1

\* the step is the user compressor's Execute up to its hand-over
UserCompressorStep == executed' = Append(executed, "userCompressor")

\* the step is the semantic search's Execute up to its hand-over
SemanticSearchStep == executed' = Append(executed, "semanticSearch")

\* the step is the return of Arrange with the processed prompt
FinishStep == pc = "return" /\ pc' = "done"

\* C22: when the generation call fails no replacement takes place: the
\* conversation state, the older window included, is after the stage what
\* it was before, the stage is not marked as having compressed, and Arrange
\* reports the error in SummaryErr with IsUserPromptCompressed = false.
C22_FailedGenerationLeavesWindow ==
    [][/\ (UserCompressorStep /\ userCompressor'.Err # Nil)
             => /\ promptMsg' = promptMsg
                /\ olderUserMsgList(promptMsg') = olderUserMsgList(promptMsg)
                /\ ~userCompressor'.Handled
       /\ (FinishStep /\ userCompressor.Err # Nil)
             => /\ ret'.SummaryErr = userCompressor.Err
                /\ ret'.IsUserPromptCompressed = FALSE]_<<pc, executed>>

\* Arrange has returned after a failed generation call on a conversation
\* whose older window was not empty
C22_Witness ==
    /\ Returned
    /\ promptMsg # NoPromptMsg
    /\ userCompressor.Calls = 1
    /\ olderUserMsgList(promptMsg) # <<>>
    /\ ret.SummaryErr = "summary generation failed"
    /\ ret.IsUserPromptCompressed = FALSE

\* C23: a semantic search that failed, timed out or found nothing leaves
\* the conversation state as it was before the stage, records its latency
\* (and its error, if any), and hands over to the following stage; Arrange
\* reports the error and the latency and no semantic context.
C23_FailedSearchIsNoContext ==
    [][/\ (SemanticSearchStep /\ ~semanticSearch'.Handled)
             => /\ promptMsg' = promptMsg
                /\ semanticSearch'.Latency > 0
                /\ semanticSearch'.SemanticResult = Nil
                /\ pc' = semanticSearch.next
                /\ pc' \in {"userCompressor", "end"}
       /\ (FinishStep /\ ~semanticSearch.Handled)
             => /\ ret'.SemanticErr = semanticSearch.Err
                /\ ret'.SemanticLatency = semanticSearch.Latency
                /\ ret'.SemanticContext = Nil
                /\ err' = Nil]_<<pc, executed>>

\* Arrange has returned after a failed search, and the stage after the
\* search was executed
C23_Witness ==
    /\ Returned
    /\ promptMsg # NoPromptMsg
    /\ ret.SemanticErr = "semantic search failed"
    /\ ret.SemanticLatency > 0
    /\ Len(executed) >= 2
    /\ executed[1] = "semanticSearch"

-----------------------------------------------------------------------------
(* Conservation and idempotence of the ToolDescriptionExtractor *)

\* the positions of the start markers of a text
StartMarkers(text) ==
    {i \in 1..Len(text) : text[i] = ToolDescStartPattern[1]}

\* the text with a span put in at a position
InsertAt(text, i, span) ==
    SubSeq(text, 1, i - 1) \o span \o SubSeq(text, i, Len(text))

\* the system text of the conversation as it was parsed
OriginalSystemText == SystemText(NewPromptMsg(messages, num))

\* an execution of the extractor has gone before
ExtractorRanBefore ==
    \E i \in DOMAIN executed : executed[i] = "ToolDescriptionExtractor"

\* C29: an execution of the extractor that changes the state leaves as the
\* system message the text it found with exactly the span from the first
\* start marker up to, not including, the first end marker after it taken
\* out, so that putting the span back at the start position gives the text
\* it found; and when the conversation as parsed held a single start marker,
\* an execution after the first changes nothing, neither the system message
\* nor lastUserMsg.
C29_ConservesTextAndIdempotent ==
    [][/\ (ExtractorRan /\ promptMsg' # promptMsg)
             => LET orig == SystemText(promptMsg)
                    new == SystemText(promptMsg')
                    s == FirstStart(orig)
                    e == FirstEndAfter(orig, s)
                IN /\ HasDelimiterPair(orig)
                   /\ s < e
                   /\ new = SubSeq(orig, 1, s - 1) \o SubSeq(orig, e, Len(orig))
                   /\ Len(new) + (e - s) = Len(orig)
                   /\ new[s] = ToolDescEndPattern[1]
                   /\ InsertAt(new, s, SubSeq(orig, s, e - 1)) = orig
       /\ (/\ ExtractorRan
           /\ ExtractorRanBefore
           /\ Cardinality(StartMarkers(OriginalSystemText)) = 1)
             => /\ promptMsg'.systemMsg = promptMsg.systemMsg
                /\ promptMsg'.lastUserMsg = promptMsg.lastUserMsg
                /\ promptMsg' = promptMsg]_vars

\* the extractor ran twice on a conversation parsed with a single start
\* marker: the first execution took the block out, the second found the
\* system message without it
C29_Witness ==
    /\ executed = <<"ToolDescriptionExtractor", "ToolDescriptionExtractor">>
    /\ Cardinality(StartMarkers(OriginalSystemText)) = 1
    /\ HasDelimiterPair(OriginalSystemText)
    /\ SystemText(promptMsg) = WithoutToolUsageBlock(OriginalSystemText)
    /\ SystemText(promptMsg) # OriginalSystemText

-----------------------------------------------------------------------------
(* VoucherActivityMiddleware.  A request body is its message list, every   *)
(* message the token sequence of its content; a keyword, the newline and   *)
(* the title phrase of the CLI are one token each.  A Redis hash entry is  *)
(* a record of key, field and value; a stored redemption record is the     *)
(* pair of user id and voucher code, and the empty string returned for a   *)
(* missing field is the empty sequence, as is the empty voucher code.      *)

Keywords == <<"k1", "k2">>

NewLine == "\n"

TitlePhrase == "Generate a title for this conversation"

\* config.VoucherActivity: the activity runs from time 1 up to the last
\* clock reading but one, so that the clock reads before, in and after it
VoucherActivity(keyword, quota) ==
    [Keyword |-> keyword, StartTime |-> 1, EndTime |-> MaxTime - 1,
     TotalQuota |-> quota]

\* the configurations: none, or one or two activities, enabled or not
VoucherConfigs ==
    {NoVoucherConfig}
        \cup {[Enabled |-> e, Activities |-> a] :
                 e \in BOOLEAN,
                 a \in UNION {
                     {<<VoucherActivity(Keywords[1], q)>>,
                      <<VoucherActivity(Keywords[1], q),
                        VoucherActivity(Keywords[2], q)>>} :
                     q \in 1..MaxQuota}}

\* the identity of the request context: none, or a user with a UUID that
\* may be empty
NoIdentity == [exists |-> FALSE, UUID |-> ""]

VoucherUsers == {"u1", "u2"}

VoucherIdentities ==
    {NoIdentity} \cup {[exists |-> TRUE, UUID |-> u] : u \in VoucherUsers \cup {""}}

\* the request bodies: one that does not parse, and message lists whose
\* last message is or is not a keyword on a line of its own
VoucherTexts ==
    {<<Keywords[1]>>, <<NewLine, Keywords[1], NewLine>>,
     <<"x", Keywords[1]>>, <<Keywords[2]>>, <<"x">>}

VoucherBodies ==
    {[parses |-> FALSE, Messages |-> <<>>], [parses |-> TRUE, Messages |-> <<>>]}
        \cup {[parses |-> TRUE, Messages |-> <<t>>] : t \in VoucherTexts}
        \cup {[parses |-> TRUE, Messages |-> <<<<"x">>, m, <<Keywords[1]>>>>] :
                 m \in {<<"x">>, <<"x", TitlePhrase>>}}

\* the templates of the responses
ExpiredMessage == "ExpiredMessage"
AlreadyRedeemedMessage == "AlreadyRedeemedMessage"
QuotaExhaustedMessage == "QuotaExhaustedMessage"
SuccessTemplate == "SuccessTemplate"

\* an execution of the middleware before its first statement, on a request
\* with an identity and a body
NewCall(identity, body) ==
    [pc |-> "new", identity |-> identity, body |-> body,
     matchedActivity |-> 0, currentTime |-> 0, userID |-> "",
     err |-> Nil, redeemedRecord |-> <<>>, userCount |-> 0,
     voucherCode |-> <<>>, written |-> <<>>, next |-> 0, aborted |-> FALSE]

\* c.Next() followed by return
CallNext(c) == [c EXCEPT !.next = @ + 1, !.pc = "done"]

\* mutant of SendSSEResponseMessageAndAbort: c.Abort() is left out, so the
\* handlers after the middleware run once it has returned
SendSSEResponseMessageWithoutAbort(c, template, code) ==
    [c EXCEPT !.written = Append(@, [Template |-> template,
                                     VoucherCode |-> code]),
              !.next = @ + 1,
              !.pc = "done"]

\* helper.SendSSEResponseMessage followed by c.Abort() and return
SendSSEResponseMessageAndAbort(c, template, code) ==
    [c EXCEPT !.written = Append(@, [Template |-> template,
                                     VoucherCode |-> code]),
              !.aborted = TRUE,
              !.pc = "done"]

\* step 5: the keyword stands on a line of its own or is the whole message
MatchesKeyword(userMessage, keyword) ==
    \/ Index(userMessage, <<NewLine, keyword, NewLine>>) # 0
    \/ userMessage = <<keyword>>

\* step 5: the index of the first matching activity, 0 for none
RECURSIVE FindActivity(_, _, _)
FindActivity(activities, userMessage, i) ==
    IF i > Len(activities) THEN 0
    ELSE IF MatchesKeyword(userMessage, activities[i].Keyword) THEN i
    ELSE FindActivity(activities, userMessage, i + 1)

\* steps 1 to 7: from the feature switch to the user's identifier
VoucherChecks(config, c, now) ==
    LET msgs == c.body.Messages
        userMessage == msgs[Len(msgs)]
        m == FindActivity(config.Activities, userMessage, 1)
        matched == config.Activities[m]
    IN IF config = NoVoucherConfig \/ ~config.Enabled THEN CallNext(c)
       ELSE IF ~c.identity.exists THEN CallNext(c)
       ELSE IF ~c.body.parses THEN CallNext(c)
       ELSE IF Len(msgs) = 0 THEN CallNext(c)
       ELSE IF Len(msgs) = 3 /\ Index(msgs[2], <<TitlePhrase>>) # 0
       THEN CallNext(c)
       ELSE IF m = 0 THEN CallNext(c)
       ELSE IF now < matched.StartTime
       THEN CallNext([c EXCEPT !.matchedActivity = m, !.currentTime = now])
       ELSE IF now > matched.EndTime
       THEN SendSSEResponseMessageAndAbort(
                [c EXCEPT !.matchedActivity = m, !.currentTime = now],
                ExpiredMessage, <<>>)
       ELSE IF c.identity.UUID = ""
       THEN CallNext([c EXCEPT !.matchedActivity = m, !.currentTime = now])
       ELSE [c EXCEPT !.matchedActivity = m, !.currentTime = now,
                      !.userID = c.identity.UUID, !.pc = "GetHashField"]

\* the key of the hash of an activity's redemption records
usersKey(keyword) == <<"voucher:activity", keyword, "users">>

\* RedisClient.GetHashField, HashLen and SetHashField on the stored hashes
GetHashField(store, key, field) ==
    IF \E e \in store : e.key = key /\ e.field = field
    THEN (CHOOSE e \in store : e.key = key /\ e.field = field).value
    ELSE <<>>

HashLen(store, key) == Cardinality({e \in store : e.key = key})

SetHashField(store, key, field, value) ==
    {e \in store : ~(e.key = key /\ e.field = field)}
        \cup {[key |-> key, field |-> field, value |-> value]}

\* json.Marshal and json.Unmarshal of a config.VoucherRedemptionRecord
MarshalRecord(record) == <<record.UserID, record.VoucherCode>>

UnmarshalRecord(text) == [UserID |-> text[1], VoucherCode |-> text[2]]

\* VoucherService.GenerateVoucher: the signed encoding of the giver, the
\* receiver, the quota and the time of the call
GenerateVoucher(giverID, receiverID, now) == <<giverID, receiverID, now>>

\* the activity a call matched
MatchedActivity(c) == voucherConfig.Activities[c.matchedActivity]

\* step 8 with the outcome of the Redis call: the user has redeemed
\* already, or the quota is looked at
AfterGetHashField(c, matched, found, ok) ==
    LET looked == [c EXCEPT !.err = IF ok THEN Nil ELSE "redis error",
                            !.redeemedRecord = IF ok THEN found ELSE <<>>]
    IN IF looked.err = Nil /\ looked.redeemedRecord # <<>>
       THEN SendSSEResponseMessageAndAbort(
                looked, AlreadyRedeemedMessage,
                UnmarshalRecord(looked.redeemedRecord).VoucherCode)
       ELSE [looked EXCEPT !.pc = "HashLen"]

\* step 9 with the outcome of the Redis call: a failed count reads as 0
AfterHashLen(c, matched, count, ok) ==
    LET counted == [c EXCEPT !.err = IF ok THEN Nil ELSE "redis error",
                             !.userCount = IF ok THEN count ELSE 0]
    IN IF counted.userCount >= matched.TotalQuota
       THEN SendSSEResponseMessageAndAbort(counted, QuotaExhaustedMessage,
                                           <<>>)
       ELSE [counted EXCEPT !.pc = "GenerateVoucher"]

\* step 10 with the outcome of the voucher service
AfterGenerateVoucher(c, matched, now, ok) ==
    IF ~ok THEN CallNext([c EXCEPT !.err = "generate failed"])
    ELSE [c EXCEPT !.err = Nil,
                   !.voucherCode = GenerateVoucher(matched.Keyword, c.userID,
                                                   now),
                   !.pc = "SetHashField"]

\* step 11 and the response: a failed store is logged and the code is sent
AfterSetHashField(c, ok) ==
    SendSSEResponseMessageAndAbort(
        [c EXCEPT !.err = IF ok THEN Nil ELSE "redis error"],
        SuccessTemplate, c.voucherCode)

\* the prompt pipeline at rest
RagIdle ==
    /\ messages = <<>>
    /\ num = 1
    /\ op = "init"
    /\ ret = Nil
    /\ err = Nil
    /\ promptMsg = NoPromptMsg
    /\ pc = "idle"
    /\ cfg = [NeedCompressUserPrompt |-> FALSE, Language |-> ""]
    /\ semanticSearch = Nil
    /\ userCompressor = Nil
    /\ executed = <<>>
    /\ toolDescriptionExtractor = NewBaseProcessor
    /\ loopDetector = NewBaseProcessor
    /\ frames = <<>>
    /\ requests = <<>>
    /\ processors = <<>>

\* the requests that redeem: a user with a UUID sends a keyword
RedeemingCalls ==
    {NewCall([exists |-> TRUE, UUID |-> u],
             [parses |-> TRUE, Messages |-> <<<<k>>>>]) :
        u \in VoucherUsers, k \in {Keywords[1], Keywords[2]}}

\* the stores a request can find: any users' records of the first activity
RecordOf(u) ==
    [key |-> usersKey(Keywords[1]), field |-> u,
     value |-> MarshalRecord([UserID |-> u,
                              VoucherCode |->
                                  GenerateVoucher(Keywords[1], u, 1)])]

VoucherStores == SUBSET {RecordOf(u) : u \in VoucherUsers}

\* Specification SpecVoucher: NumCalls redeeming requests, their steps
\* interleaved in every order, on an empty store
InitVoucher ==
    /\ RagIdle
    /\ WatcherRest
    /\ HandlerRest
    /\ IdentityRest
    /\ voucherConfig \in VoucherConfigs
    /\ redis = {}
    /\ clock = 0
    /\ calls \in [1..NumCalls -> RedeemingCalls]

\* Specification SpecVoucherCall: one request of any kind on any store
InitVoucherCall ==
    /\ RagIdle
    /\ WatcherRest
    /\ HandlerRest
    /\ IdentityRest
    /\ voucherConfig \in VoucherConfigs
    /\ redis \in VoucherStores
    /\ clock = 0
    /\ calls \in [{1} -> {NewCall(i, b) : i \in VoucherIdentities,
                                          b \in VoucherBodies}]

Calls == DOMAIN calls

\* time passes
VoucherTick ==
    /\ clock < MaxTime
    /\ clock' = clock + 1
    /\ UNCHANGED <<ragVars, watcherVars, handlerVars, identityVars,
                 voucherConfig, redis, calls>>

\* steps 1 to 7
VoucherBegin(r) ==
    /\ calls[r].pc = "new"
    /\ calls' = [calls EXCEPT ![r] = VoucherChecks(voucherConfig, @, clock)]
    /\ UNCHANGED <<ragVars, watcherVars, handlerVars, identityVars,
                 voucherConfig, redis, clock>>

\* step 8
VoucherGetHashField(r) ==
    /\ calls[r].pc = "GetHashField"
    /\ \E ok \in BOOLEAN :
          calls' = [calls EXCEPT ![r] =
                       AfterGetHashField(
                           @, MatchedActivity(@),
                           GetHashField(redis,
                                        usersKey(MatchedActivity(@).Keyword),
                                        @.userID),
                           ok)]
    /\ UNCHANGED <<ragVars, watcherVars, handlerVars, identityVars,
                 voucherConfig, redis, clock>>

\* step 9
VoucherHashLen(r) ==
    /\ calls[r].pc = "HashLen"
    /\ \E ok \in BOOLEAN :
          calls' = [calls EXCEPT ![r] =
                       AfterHashLen(
                           @, MatchedActivity(@),
                           HashLen(redis,
                                   usersKey(MatchedActivity(@).Keyword)),
                           ok)]
    /\ UNCHANGED <<ragVars, watcherVars, handlerVars, identityVars,
                 voucherConfig, redis, clock>>

\* step 10
VoucherGenerate(r) ==
    /\ calls[r].pc = "GenerateVoucher"
    /\ \E ok \in BOOLEAN :
          calls' = [calls EXCEPT ![r] =
                       AfterGenerateVoucher(@, MatchedActivity(@), clock, ok)]
    /\ UNCHANGED <<ragVars, watcherVars, handlerVars, identityVars,
                 voucherConfig, redis, clock>>

\* step 11 and the response
VoucherSetHashField(r) ==
    /\ calls[r].pc = "SetHashField"
    /\ \E ok \in BOOLEAN :
          /\ redis' =
                IF ok
                THEN SetHashField(
                         redis, usersKey(MatchedActivity(calls[r]).Keyword),
                         calls[r].userID,
                         MarshalRecord([UserID |-> calls[r].userID,
                                        VoucherCode |-> calls[r].voucherCode]))
                ELSE redis
          /\ calls' = [calls EXCEPT ![r] = AfterSetHashField(@, ok)]
    /\ UNCHANGED <<ragVars, watcherVars, handlerVars, identityVars,
                 voucherConfig, clock>>

NextVoucher ==
    \/ VoucherTick
    \/ \E r \in Calls : VoucherBegin(r)
    \/ \E r \in Calls : VoucherGetHashField(r)
    \/ \E r \in Calls : VoucherHashLen(r)
    \/ \E r \in Calls : VoucherGenerate(r)
    \/ \E r \in Calls : VoucherSetHashField(r)

SpecVoucher == InitVoucher /\ [][NextVoucher]_vars

SpecVoucherCall == InitVoucherCall /\ [][NextVoucher]_vars

-----------------------------------------------------------------------------
(* Properties of VoucherActivityMiddleware *)

\* the calls of a user that matched an activity's keyword
CallsOf(u, k) ==
    {r \in Calls : /\ calls[r].userID = u
                   /\ calls[r].matchedActivity # 0
                   /\ MatchedActivity(calls[r]).Keyword = k}

\* the responses a call has written from a template
Written(r, template) ==
    {calls[r].written[i] : i \in {j \in DOMAIN calls[r].written :
                                     calls[r].written[j].Template = template}}

\* the voucher codes issued to a user for an activity
CodesIssued(u, k) ==
    {w.VoucherCode : w \in UNION {Written(r, SuccessTemplate) :
                                     r \in CallsOf(u, k)}}

\* the keywords of the configured activities
ConfiguredKeywords ==
    {voucherConfig.Activities[i].Keyword : i \in DOMAIN voucherConfig.Activities}

\* C24 (as claimed; refuted): whatever the interleaving of the requests of
\* one user for one activity and whatever the outcome of the Redis calls,
\* the user is issued at most one voucher code for the activity, and an
\* already-redeemed response carries the code that was issued.
C24_AtMostOneCodePerUser ==
    \A u \in VoucherUsers, k \in ConfiguredKeywords :
        /\ Cardinality(CodesIssued(u, k)) <= 1
        /\ \A r \in CallsOf(u, k) :
              \A w \in Written(r, AlreadyRedeemedMessage) :
                  w.VoucherCode \in CodesIssued(u, k)

\* the redemption records stored for an activity
RecordsOf(k) == {e \in redis : e.key = usersKey(k)}

\* C25 (as claimed; refuted): the number of redemption records stored for
\* an activity never exceeds its TotalQuota.
C25_RecordsWithinQuota ==
    \A i \in DOMAIN voucherConfig.Activities :
        Cardinality(RecordsOf(voucherConfig.Activities[i].Keyword))
            <= voucherConfig.Activities[i].TotalQuota

\* what an execution found, read from the handler's locals
Matched(c) == c.matchedActivity # 0

NotStarted(c) == Matched(c) /\ c.currentTime < MatchedActivity(c).StartTime

Ended(c) == Matched(c) /\ c.currentTime > MatchedActivity(c).EndTime

AlreadyRedeemed(c) == Matched(c) /\ c.redeemedRecord # <<>>

QuotaExhausted(c) ==
    Matched(c) /\ c.userCount >= MatchedActivity(c).TotalQuota

Issued(c) == Matched(c) /\ c.voucherCode # <<>>

\* what the request is, read from its inputs
Disabled == voucherConfig = NoVoucherConfig \/ ~voucherConfig.Enabled

NoMessages(c) == ~c.body.parses \/ c.body.Messages = <<>>

NoKeywordMatches(c) ==
    \A k \in ConfiguredKeywords :
        ~MatchesKeyword(c.body.Messages[Len(c.body.Messages)], k)

\* the two outcomes of an execution
PassedOn(c) == c.next = 1 /\ c.written = <<>> /\ ~c.aborted

Answered(c) == c.next = 0 /\ Len(c.written) = 1 /\ c.aborted

\* the template of the one response
TemplateOf(c) ==
    IF Ended(c) THEN ExpiredMessage
    ELSE IF AlreadyRedeemed(c) THEN AlreadyRedeemedMessage
    ELSE IF QuotaExhausted(c) THEN QuotaExhaustedMessage
    ELSE SuccessTemplate

-----------------------------------------------------------------------------
(* ConfigWatcher: the registry of handlers.  The Go map w.handlers is the  *)
(* set of its entries, a dataId with the handler stored under it.          *)

\* the handlers callers register: nil, one without a dataId, two with the
\* same dataId and one with another
HandlerPool ==
    {NilHandler, Handler("h0", ""), Handler("h1", "a"), Handler("h2", "a"),
     Handler("h3", "b")}

\* _, exists := m[k] and m[k] = v on a Go map
MapHas(m, k) == \E e \in m : e.dataId = k

MapSet(m, k, v) ==
    {e \in m : e.dataId # k} \cup {[dataId |-> k, handler |-> v]}

\* NewConfigWatcher: connected when a client is given
NewConfigWatcher(client) ==
    [client |-> client, handlers |-> {}, isConnected |-> client]

\* mutant of RegisterHandler: without the test for a registered dataId
RegisterHandlerOverwriting(w, handler) ==
    IF handler.nil
    THEN [w |-> w, err |-> "handler cannot be nil"]
    ELSE IF handler.dataId = ""
    THEN [w |-> w, err |-> "dataId cannot be empty"]
    ELSE [w |-> [w EXCEPT !.handlers = MapSet(@, handler.dataId, handler)],
          err |-> Nil]

\* RegisterHandler: the watcher it leaves and the error it returns
RegisterHandler(w, handler) ==
    IF handler.nil
    THEN [w |-> w, err |-> "handler cannot be nil"]
    ELSE IF handler.dataId = ""
    THEN [w |-> w, err |-> "dataId cannot be empty"]
    ELSE IF MapHas(w.handlers, handler.dataId)
    THEN [w |-> w, err |-> "handler already registered"]
    ELSE [w |-> [w EXCEPT !.handlers = MapSet(@, handler.dataId, handler)],
          err |-> Nil]

\* StartWatching: the outcomes it can have, each the error returned and the
\* dataIds ListenConfig was called for with success; the map is ranged over
\* in any order and the first failing ListenConfig ends the loop
StartWatching(w) ==
    LET ids == {e.dataId : e \in w.handlers}
    IN IF ~w.isConnected
       THEN {[err |-> "nacos client is not connected", listened |-> {}]}
       ELSE IF w.handlers = {}
       THEN {[err |-> "no handlers registered", listened |-> {}]}
       ELSE {[err |-> Nil, listened |-> ids]}
               \cup {[err |-> "failed to start watching", listened |-> d] :
                        d \in UNION {SUBSET (ids \ {f}) : f \in ids}}

\* Close
Close(w) == [w EXCEPT !.isConnected = FALSE]

\* Specification SpecWatcher: calls on one ConfigWatcher, one after another
InitWatcher ==
    /\ RagIdle
    /\ VoucherRest
    /\ HandlerRest
    /\ IdentityRest
    /\ \E client \in BOOLEAN : configWatcher = NewConfigWatcher(client)
    /\ listening = {}
    /\ watcherRet = [op |-> "NewConfigWatcher", handler |-> NilHandler,
                     err |-> Nil]

WatcherRegisterHandler ==
    /\ \E handler \in HandlerPool :
          /\ configWatcher' = RegisterHandler(configWatcher, handler).w
          /\ watcherRet' = [op |-> "RegisterHandler", handler |-> handler,
                            err |-> RegisterHandler(configWatcher, handler).err]
    /\ UNCHANGED <<ragVars, voucherVars, handlerVars, identityVars, listening>>

WatcherStartWatching ==
    /\ \E out \in StartWatching(configWatcher) :
          /\ listening' = listening \cup out.listened
          /\ watcherRet' = [op |-> "StartWatching", handler |-> NilHandler,
                            err |-> out.err]
    /\ UNCHANGED <<ragVars, voucherVars, handlerVars, identityVars,
                   configWatcher>>

WatcherClose ==
    /\ configWatcher' = Close(configWatcher)
    /\ watcherRet' = [op |-> "Close", handler |-> NilHandler, err |-> Nil]
    /\ UNCHANGED <<ragVars, voucherVars, handlerVars, identityVars, listening>>

NextWatcher ==
    \/ WatcherRegisterHandler
    \/ WatcherStartWatching
    \/ WatcherClose

SpecWatcher == InitWatcher /\ [][NextWatcher]_vars

\* the registry holds one handler at most under a dataId, no nil handler and
\* no empty dataId, and every handler under its own dataId
RegistryOk(w) ==
    /\ \A e1, e2 \in w.handlers : e1.dataId = e2.dataId => e1 = e2
    /\ \A e \in w.handlers :
          /\ ~e.handler.nil
          /\ e.dataId # ""
          /\ e.handler.dataId = e.dataId

\* the call asks for what RegisterHandler refuses
Refused(w, handler) ==
    handler.nil \/ handler.dataId = "" \/ MapHas(w.handlers, handler.dataId)

\* C28: after every call the registry holds at most one handler under a
\* dataId and neither a nil handler nor an empty dataId; RegisterHandler
\* with a nil handler, an empty dataId or a dataId already registered
\* returns an error and leaves the registry as it was, the first handler in
\* place, and otherwise adds the handler; StartWatching returns an error and
\* listens for nothing when the watcher is not connected or no handler is
\* registered; and a watcher that is not connected, after Close or without
\* a client, stays so.
C28_RegistryOnePerDataId ==
    [][/\ RegistryOk(configWatcher')
       /\ watcherRet'.op = "RegisterHandler"
             => IF Refused(configWatcher, watcherRet'.handler)
                THEN /\ watcherRet'.err # Nil
                     /\ configWatcher'.handlers = configWatcher.handlers
                ELSE /\ watcherRet'.err = Nil
                     /\ configWatcher'.handlers =
                           configWatcher.handlers
                               \cup {[dataId |-> watcherRet'.handler.dataId,
                                      handler |-> watcherRet'.handler]}
       /\ (/\ watcherRet'.op = "StartWatching"
           /\ ~configWatcher.isConnected \/ configWatcher.handlers = {})
             => /\ watcherRet'.err # Nil
                /\ listening' = listening
       /\ watcherRet'.op = "Close" => ~configWatcher'.isConnected
       /\ ~configWatcher.isConnected => ~configWatcher'.isConnected]_vars

\* a second handler for a registered dataId was refused and the first is
\* still the one registered; the watcher was closed before
C28_Witness ==
    /\ watcherRet.op = "RegisterHandler"
    /\ watcherRet.handler = Handler("h2", "a")
    /\ watcherRet.err # Nil
    /\ [dataId |-> "a", handler |-> Handler("h1", "a")]
           \in configWatcher.handlers
    /\ configWatcher.client
    /\ ~configWatcher.isConnected

-----------------------------------------------------------------------------
(* GenericConfigHandler.  A config instance lives on the heap and is known *)
(* by its address (0 is nil); the config type has two fields, a and b.     *)
(* Configuration data is a YAML document that reads or not, with a value   *)
(* for each field that decodes or not.                                     *)

\* reflect.New(configType): an instance with every field at its zero value
ZeroConfig == [a |-> 0, b |-> 0]

\* the values of a field in the data
FieldData ==
    {[ok |-> FALSE, v |-> 0]} \cup {[ok |-> TRUE, v |-> n] : n \in 1..MaxValue}

\* the data delivered by the configuration server
ConfigData ==
    {[yaml |-> FALSE, a |-> [ok |-> FALSE, v |-> 0],
      b |-> [ok |-> FALSE, v |-> 0]]}
        \cup {[yaml |-> TRUE, a |-> fa, b |-> fb] :
                 fa \in FieldData, fb \in FieldData}

\* NewGenericConfigHandler: configType is a pointer to an instance, or nil
NewGenericConfigHandler(dataId, configType, onChange) ==
    [dataId |-> dataId, configPtr |-> configType, onChange |-> onChange]

\* mutant of createConfigInstance: the cached instance is handed out instead
\* of a new one
createConfigInstanceShared(h, hp) ==
    IF h.configPtr = 0
    THEN [err |-> "config type not initialized", ptr |-> 0, heap |-> hp]
    ELSE [err |-> Nil, ptr |-> h.configPtr, heap |-> hp]

\* createConfigInstance: a new zero instance of the cached config's type
createConfigInstance(h, hp) ==
    IF h.configPtr = 0
    THEN [err |-> "config type not initialized", ptr |-> 0, heap |-> hp]
    ELSE [err |-> Nil, ptr |-> Len(hp) + 1, heap |-> Append(hp, ZeroConfig)]

\* the decoding of one field into the target: a value that does not decode
\* leaves the field alone and the error is reported when decoding is over
DecodeA(config, data) == IF data.a.ok THEN [config EXCEPT !.a = data.a.v] ELSE config

DecodeB(config, data) == IF data.b.ok THEN [config EXCEPT !.b = data.b.v] ELSE config

\* Specification SpecHandler: OnChange calls on one handler, one after
\* another, their steps interleaved with GetConfig calls
InitHandler ==
    /\ RagIdle
    /\ VoucherRest
    /\ WatcherRest
    /\ IdentityRest
    /\ \E typed \in BOOLEAN, onChange \in BOOLEAN :
          /\ configHandler =
                NewGenericConfigHandler("a", IF typed THEN 1 ELSE 0, onChange)
          /\ heap = IF typed THEN <<ZeroConfig>> ELSE <<>>
    /\ onChangeCall = NoOnChangeCall
    /\ notified = <<>>
    /\ observed = 0

\* OnChange is called with some data and creates the new instance
OnChangeBegin ==
    /\ onChangeCall.pc = "idle"
    /\ Len(heap) < MaxObjects
    /\ \E data \in ConfigData :
          LET made == createConfigInstance(configHandler, heap)
          IN /\ heap' = made.heap
             /\ onChangeCall' =
                   [pc |-> IF made.err # Nil THEN "return" ELSE "ReadConfig",
                    data |-> data, newConfig |-> made.ptr, err |-> made.err,
                    previous |-> configHandler.configPtr,
                    told |-> Len(notified)]
    /\ UNCHANGED <<ragVars, voucherVars, watcherVars, identityVars,
                   configHandler, notified, observed>>

\* unmarshalYAMLContent: the document is read
OnChangeReadConfig ==
    /\ onChangeCall.pc = "ReadConfig"
    /\ onChangeCall' =
          IF onChangeCall.data.yaml
          THEN [onChangeCall EXCEPT !.pc = "decode a"]
          ELSE [onChangeCall EXCEPT !.pc = "return",
                                    !.err = "failed to unmarshal config"]
    /\ UNCHANGED <<ragVars, voucherVars, watcherVars, identityVars,
                   configHandler, heap, notified, observed>>

\* unmarshalYAMLContent: the fields are decoded into the new instance
OnChangeDecodeA ==
    /\ onChangeCall.pc = "decode a"
    /\ heap' = [heap EXCEPT ![onChangeCall.newConfig] =
                   DecodeA(@, onChangeCall.data)]
    /\ onChangeCall' =
          [onChangeCall EXCEPT
              !.pc = "decode b",
              !.err = IF onChangeCall.data.a.ok THEN @
                      ELSE "failed to unmarshal config"]
    /\ UNCHANGED <<ragVars, voucherVars, watcherVars, identityVars,
                   configHandler, notified, observed>>

OnChangeDecodeB ==
    /\ onChangeCall.pc = "decode b"
    /\ heap' = [heap EXCEPT ![onChangeCall.newConfig] =
                   DecodeB(@, onChangeCall.data)]
    /\ onChangeCall' =
          LET decodeErr == IF onChangeCall.data.b.ok THEN onChangeCall.err
                           ELSE "failed to unmarshal config"
          IN [onChangeCall EXCEPT
                 !.pc = IF decodeErr # Nil THEN "return" ELSE "store",
                 !.err = decodeErr]
    /\ UNCHANGED <<ragVars, voucherVars, watcherVars, identityVars,
                   configHandler, notified, observed>>

\* the cache is replaced under the write lock
OnChangeStore ==
    /\ onChangeCall.pc = "store"
    /\ configHandler' =
          [configHandler EXCEPT !.configPtr = onChangeCall.newConfig]
    /\ onChangeCall' = [onChangeCall EXCEPT !.pc = "callback"]
    /\ UNCHANGED <<ragVars, voucherVars, watcherVars, identityVars,
                   heap, notified, observed>>

\* the callback, if there is one, is called with the new instance
OnChangeCallback ==
    /\ onChangeCall.pc = "callback"
    /\ notified' = IF configHandler.onChange
                   THEN Append(notified, onChangeCall.newConfig)
                   ELSE notified
    /\ onChangeCall' = [onChangeCall EXCEPT !.pc = "return"]
    /\ UNCHANGED <<ragVars, voucherVars, watcherVars, identityVars,
                   configHandler, heap, observed>>

\* OnChange returns
OnChangeReturn ==
    /\ onChangeCall.pc = "return"
    /\ onChangeCall' = NoOnChangeCall
    /\ UNCHANGED <<ragVars, voucherVars, watcherVars, identityVars,
                   configHandler, heap, notified, observed>>

\* GetConfig, from another goroutine, under the read lock
GetConfig ==
    /\ observed' = configHandler.configPtr
    /\ UNCHANGED <<ragVars, voucherVars, watcherVars, identityVars,
                   configHandler, heap, onChangeCall, notified>>

NextHandler ==
    \/ OnChangeBegin
    \/ OnChangeReadConfig
    \/ OnChangeDecodeA
    \/ OnChangeDecodeB
    \/ OnChangeStore
    \/ OnChangeCallback
    \/ OnChangeReturn
    \/ GetConfig

SpecHandler == InitHandler /\ [][NextHandler]_vars

\* the data that parses, and the config it stands for
ParsesWell(data) == data.yaml /\ data.a.ok /\ data.b.ok

ConfigOf(data) == [a |-> data.a.v, b |-> data.b.v]

\* the instance at an address is whole: the one the handler was made with,
\* untouched, or one built from data that parses, with every field set
Whole(ptr) ==
    \/ ptr = 0
    \/ ptr = 1 /\ heap[ptr] = ZeroConfig
    \/ ptr > 1 /\ \E data \in ConfigData :
                      ParsesWell(data) /\ heap[ptr] = ConfigOf(data)

\* the state of the handler while and after an OnChange call
AllOrNothing ==
    /\ Whole(configHandler.configPtr)
    /\ Whole(observed)
    /\ \A i \in DOMAIN notified : Whole(notified[i])
    /\ onChangeCall.pc \in {"ReadConfig", "decode a", "decode b", "store"}
          => /\ configHandler.configPtr = onChangeCall.previous
             /\ Len(notified) = onChangeCall.told
    /\ (onChangeCall.pc = "return" /\ onChangeCall.err # Nil)
          => /\ ~ParsesWell(onChangeCall.data) \/ onChangeCall.previous = 0
             /\ configHandler.configPtr = onChangeCall.previous
             /\ Len(notified) = onChangeCall.told
    /\ onChangeCall.pc = "callback"
          => /\ configHandler.configPtr = onChangeCall.newConfig
             /\ Len(notified) = onChangeCall.told
    /\ (onChangeCall.pc = "return" /\ onChangeCall.err = Nil)
          => /\ ParsesWell(onChangeCall.data)
             /\ configHandler.configPtr = onChangeCall.newConfig
             /\ onChangeCall.newConfig # onChangeCall.previous
             /\ heap[onChangeCall.newConfig] = ConfigOf(onChangeCall.data)
             /\ notified =
                   IF configHandler.onChange
                   THEN Append(SubSeq(notified, 1, onChangeCall.told),
                               onChangeCall.newConfig)
                   ELSE SubSeq(notified, 1, onChangeCall.told)

\* C27: OnChange is all or nothing.  When the data does not parse (or the
\* handler has no config type) the cached config is the one cached before
\* the call and the callback is not called; when it parses, the cache is
\* replaced by the new instance, built in full, before the callback is
\* called with it; the instances cached, handed to the callback and
\* returned by GetConfig are whole at every moment, and a GetConfig during
\* an OnChange call returns the instance cached before the call or the new
\* one; an instance once cached is never written again.
C27_OnChangeAllOrNothing ==
    [][/\ AllOrNothing'
       /\ observed' # observed
             => /\ observed' = configHandler.configPtr
                /\ onChangeCall.pc # "idle"
                      => observed' \in {onChangeCall.previous,
                                        onChangeCall.newConfig}
       /\ \A ptr \in DOMAIN heap :
             (ptr = configHandler.configPtr \/ ptr = observed)
                => heap'[ptr] = heap[ptr]]_vars

\* an OnChange call has failed on data of which one field decoded and the
\* cache holds the instance of the successful call before it, which
\* GetConfig returned while the failing call was decoding
C27_Witness ==
    /\ onChangeCall.pc = "return"
    /\ onChangeCall.err # Nil
    /\ onChangeCall.data.yaml
    /\ onChangeCall.data.a.ok
    /\ onChangeCall.newConfig # 0
    /\ heap[onChangeCall.newConfig] # ZeroConfig
    /\ configHandler.configPtr = 2
    /\ observed = 2
    /\ notified = <<2>>

-----------------------------------------------------------------------------
(* IdentityMiddleware and VerifyRequest.  An x-request-id header is a text *)
(* that uuid.Parse reads or not; of the UUID read, the model keeps the     *)
(* first seven bytes: the 48-bit timestamp and the byte of the version.    *)
(* Times are in microseconds, the timestamp of a UUID in milliseconds.     *)

StatusBadRequest == 400

FiveMinutes == 300000000

UsPerMs == 1000

\* the moments a request arrives at: on a millisecond, and just after it
Arrivals == {4 * FiveMinutes, 4 * FiveMinutes + 1}

\* the timestamps clients embed: five minutes and a millisecond before the
\* first arrival, five minutes before it, at it, and the same after it
Stamps ==
    {(4 * FiveMinutes + d * FiveMinutes) \div UsPerMs + e :
        d \in {-1, 0, 1}, e \in {-1, 0, 1}}

\* the six bytes of a timestamp, most significant first
RECURSIVE BigEndian(_, _)
BigEndian(n, len) ==
    IF len = 0 THEN <<>>
    ELSE Append(BigEndian(n \div 256, len - 1), n % 256)

\* the bytes of a UUID with a timestamp and a version byte
UUIDBytes(stampMs, versionByte) == Append(BigEndian(stampMs, 6), versionByte)

\* the x-request-id headers: none, one that is no UUID, and UUIDs of
\* version 4 and 7 (the low half of the version byte set or not)
RequestIds ==
    {[parses |-> FALSE, text |-> "", bytes |-> <<>>, stampMs |-> 0],
     [parses |-> FALSE, text |-> "not-a-uuid", bytes |-> <<>>, stampMs |-> 0]}
        \cup {[parses |-> TRUE, text |-> "uuid", bytes |-> UUIDBytes(t, v),
               stampMs |-> t] : t \in Stamps, v \in {64, 112, 127}}

Callers == {"", "cli"}

\* helper.GetIdentityFromHeaders: the identity of the headers, the caller
\* "chat" when the header is missing
GetIdentityFromHeaders(headers) ==
    [RequestID |-> headers.RequestId,
     Caller |-> IF headers.Caller # "" THEN headers.Caller ELSE "chat"]

\* UUID.Version: the high half of the seventh byte
Version(bytes) == bytes[7] \div 16

\* the 48-bit timestamp in the first six bytes
TimestampMs(bytes) ==
    ((((bytes[1] * 256 + bytes[2]) * 256 + bytes[3]) * 256 + bytes[4]) * 256
        + bytes[5]) * 256 + bytes[6]

\* uuidV7Verify looking at timestamps of the past only
uuidV7VerifyPastOnly(id, verifyTimestamp, now) ==
    IF ~id.parses THEN FALSE
    ELSE IF Version(id.bytes) # 7 THEN FALSE
    ELSE IF ~verifyTimestamp THEN TRUE
    ELSE LET diff == now - TimestampMs(id.bytes) * UsPerMs
         IN ~(diff > FiveMinutes)

\* uuidV7Verify
uuidV7Verify(id, verifyTimestamp, now) ==
    IF ~id.parses THEN FALSE
    ELSE IF Version(id.bytes) # 7 THEN FALSE
    ELSE IF ~verifyTimestamp THEN TRUE
    ELSE LET diff == now - TimestampMs(id.bytes) * UsPerMs
         IN ~(diff < -FiveMinutes \/ diff > FiveMinutes)

\* VerifyRequest: the error it returns
VerifyRequest(identity, config, now) ==
    IF ~uuidV7Verify(identity.RequestID, config.EnabledTimeVerify, now)
    THEN "invalid x-request-id"
    ELSE Nil

\* no identity (a record, so that it compares with one)
NoCtxIdentity == [RequestID |-> [parses |-> FALSE], Caller |-> ""]

\* the gin context of a request at the entry of the middleware: the
\* headers, the locals identity and ctxWithIdentity, the values of the
\* request's context, what was written, and the calls of c.Next
NewGinContext(headers) ==
    [pc |-> "new", headers |-> headers, identity |-> NoCtxIdentity,
     ctxWithIdentity |-> NoCtxIdentity, requestCtx |-> NoCtxIdentity,
     written |-> <<>>, aborted |-> FALSE, next |-> 0,
     seenByNext |-> NoCtxIdentity]

\* Specification SpecIdentity: one request through IdentityMiddleware
InitIdentity ==
    /\ RagIdle
    /\ VoucherRest
    /\ WatcherRest
    /\ HandlerRest
    /\ requestVerify \in [Enabled : BOOLEAN, EnabledTimeVerify : BOOLEAN]
    /\ nowUs \in Arrivals
    /\ \E id \in RequestIds, caller \in Callers :
          ginContext = NewGinContext([RequestId |-> id, Caller |-> caller])

\* the identity is taken from the headers and put in a context
IdentityExtract ==
    /\ ginContext.pc = "new"
    /\ ginContext' =
          [ginContext EXCEPT
              !.identity = GetIdentityFromHeaders(ginContext.headers),
              !.ctxWithIdentity = GetIdentityFromHeaders(ginContext.headers),
              !.pc = "verify"]
    /\ UNCHANGED <<ragVars, voucherVars, watcherVars, handlerVars,
                   requestVerify, nowUs>>

\* the request is verified when verification is enabled; a request that
\* fails is answered and the chain is aborted
IdentityVerify ==
    /\ ginContext.pc = "verify"
    /\ ginContext' =
          IF /\ requestVerify.Enabled
             /\ VerifyRequest(ginContext.identity, requestVerify, nowUs) # Nil
          THEN [ginContext EXCEPT
                   !.written = Append(@, [status |-> StatusBadRequest]),
                   !.aborted = TRUE,
                   !.pc = "done"]
          ELSE [ginContext EXCEPT !.pc = "next"]
    /\ UNCHANGED <<ragVars, voucherVars, watcherVars, handlerVars,
                   requestVerify, nowUs>>

\* the context with the identity becomes the request's and the next handler
\* is called with it
IdentityNext ==
    /\ ginContext.pc = "next"
    /\ ginContext' =
          [ginContext EXCEPT
              !.requestCtx = ginContext.ctxWithIdentity,
              !.next = @ + 1,
              !.seenByNext = ginContext.ctxWithIdentity,
              !.pc = "done"]
    /\ UNCHANGED <<ragVars, voucherVars, watcherVars, handlerVars,
                   requestVerify, nowUs>>

NextIdentity ==
    \/ IdentityExtract
    \/ IdentityVerify
    \/ IdentityNext

SpecIdentity == InitIdentity /\ [][NextIdentity]_vars

\* the header is a UUID of version 7
ValidV7(id) == id.parses /\ id.bytes[7] \in 112..127

\* the timestamp the client embedded is more than five minutes from now
TooFar(id) ==
    \/ nowUs - id.stampMs * UsPerMs > FiveMinutes
    \/ id.stampMs * UsPerMs - nowUs > FiveMinutes

\* the request is one the middleware must refuse
MustRefuse ==
    LET id == ginContext.headers.RequestId
    IN /\ requestVerify.Enabled
       /\ \/ ~ValidV7(id)
          \/ requestVerify.EnabledTimeVerify /\ TooFar(id)

\* C30: IdentityMiddleware gates the chain.  When verification is enabled
\* and x-request-id is no UUID of version 7, or time verification is on and
\* its timestamp is more than five minutes from now in either direction,
\* the middleware writes one error response, aborts and calls no handler;
\* otherwise it writes nothing and calls the next handler once, with the
\* identity of the headers in the request's context.  Before it is through
\* it has written nothing and called no one.
C30_IdentityGate ==
    IF ginContext.pc # "done"
    THEN /\ ginContext.written = <<>>
         /\ ginContext.next = 0
         /\ ~ginContext.aborted
    ELSE IF MustRefuse
    THEN /\ ginContext.written = <<[status |-> StatusBadRequest]>>
         /\ ginContext.aborted
         /\ ginContext.next = 0
    ELSE /\ ginContext.written = <<>>
         /\ ~ginContext.aborted
         /\ ginContext.next = 1
         /\ ginContext.seenByNext.RequestID = ginContext.headers.RequestId
         /\ ginContext.seenByNext.Caller \in {ginContext.headers.Caller, "chat"}
         /\ ginContext.seenByNext.Caller # ""
         /\ ginContext.requestCtx = ginContext.seenByNext

\* a request with a UUID of version 7 stamped more than five minutes in the
\* future was refused
C30_Witness ==
    /\ ginContext.pc = "done"
    /\ ginContext.aborted
    /\ ValidV7(ginContext.headers.RequestId)
    /\ ginContext.headers.RequestId.stampMs * UsPerMs - nowUs > FiveMinutes

====
